---- MODULE Spec2Model ----
(***************************************************************************)
(* Model of the linkage approval workflow of noma-welfare:                 *)
(*   src/data/requestStore.mjs  the JSON-file request store                *)
(*   src/server.js              the HTTP handlers in front of it           *)
(*                                                                         *)
(* The store is the object readAll() returns: a map from case id to case   *)
(* record; every mutator reads it, changes it and calls writeAll() before  *)
(* it returns, so `store` is at once the committed file content and the    *)
(* cache.  Handlers run to completion except the administrator approval,   *)
(* which suspends at `await emailTransporter.sendMail(...)`.               *)
(*                                                                         *)
(* Carried data that no guard reads (type, reason, sequenceOrder,          *)
(* sequenceGroupId, comments, the notes list) is left out of the records.  *)
(***************************************************************************)
EXTENDS Integers, Sequences, FiniteSets, TLC

\* ------------------------------------------------------------------ bounds
MaxHist  == 4      \* length of one linkage's approvalHistory
MaxClock == 1      \* the wall clock runs 0..MaxClock

\* ------------------------------------------------------------ JS values
NULL  == "null"
UNDEF == "undefined"

\* JS truthiness of the string-or-null values the handlers test
Truthy(v) == v \notin {NULL, UNDEF, ""}

\* `a || b` of JavaScript
OrElse(a, b) == IF Truthy(a) THEN a ELSE b

\* ------------------------------------------------------------------- ids
RootCase == "c1"

\* crypto.randomUUID(): the k-th id generated, never one generated before.
\* The workflow is followed on one linkage (the seven approval states, the
\* histories up to MaxHist and the suspended approvals of a second one
\* multiply the state space beyond what a run can cover); cases are spawned
\* as often as the bounds let the linkage be approved.
LinkageIdSeq == <<"l1">>
SpawnIdSeq   == <<"n1", "n2">>

LinkageIds == {LinkageIdSeq[i] : i \in 1..Len(LinkageIdSeq)}
SpawnIds   == {SpawnIdSeq[i] : i \in 1..Len(SpawnIdSeq)}
CaseIds    == {RootCase} \cup SpawnIds

VARIABLES
    store,       \* readAll(): case id -> case record
    now,         \* new Date()
    inflight,    \* linkage id -> administrator approvals suspended at sendMail
    dispatched,  \* linkage id -> sendMail calls made for the linkage
    resp,        \* the last request handled and the code it was answered with
    wrote,       \* whether the last handler step called writeAll
    out,         \* what the last read-side call returned
    disk,        \* the files of the data directory
    cache,       \* _cache and _cacheMtime of requestStore.mjs
    pc           \* where the process is inside writeAll, or that it crashed

vars == <<store, now, inflight, dispatched, resp, wrote>>

\* the state of the specifications that follow the store's files and the
\* read-side functions; the approval workflow leaves it alone
files == <<disk, cache, pc>>

aux == <<out, files>>

allvars == <<vars, aux>>

\* readAll and writeAll taken as one step each: the files are not followed
FilesIdle ==
    /\ disk = NULL
    /\ cache = NULL
    /\ pc = "idle"

\* the approval workflow does not follow the files or the read-side calls
AuxIdle ==
    /\ out = NULL
    /\ FilesIdle

\* ---------------------------------------------------------------- helpers
\* req.linkages.find(l => l.id === linkageId), as an index (0: not found)
FindIdx(links, lid) ==
    IF \E i \in 1..Len(links) : links[i].id = lid
    THEN CHOOSE i \in 1..Len(links) :
            links[i].id = lid /\ \A j \in 1..(i-1) : links[j].id # lid
    ELSE 0

\* the cases whose linkages hold lid: where a handler's scan of listAll() stops
Owners(s, lid) == {c \in DOMAIN s : FindIdx(s[c].linkages, lid) # 0}

OwnerOf(s, lid) == CHOOSE c \in Owners(s, lid) : TRUE

\* the linkage record with id lid (callers test Owners first)
LinkageOf(s, lid) ==
    LET c == OwnerOf(s, lid) IN s[c].linkages[FindIdx(s[c].linkages, lid)]

StoredLinkageIds(s) ==
    UNION {{s[c].linkages[i].id : i \in 1..Len(s[c].linkages)} : c \in DOMAIN s}

\* what a store function hands back: null (ok = FALSE) or the changed store,
\* and whether it called writeAll
Fail(s) == [ok |-> FALSE, store |-> s, wrote |-> FALSE]
Done(s) == [ok |-> TRUE, store |-> s, wrote |-> TRUE]

HistEntry(action, by) == [action |-> action, by |-> by]

\* ------------------------------------------------- requestStore.mjs
\* mutant: the record is saved into an empty object instead of the store read
save_IntoEmpty(s, request) == Done(request.id :> request)

\* mutant: the record is not stored
save_Nothing(s, request) == Done(s)

\* save(request): store[request.id] = request
save(s, request) == Done((request.id :> request) @@ s)

\* mutant: the referral entry is not pushed
addReferral_NoPush(s, id, referral) ==
    IF id \in DOMAIN s THEN Done(s) ELSE Fail(s)

\* addReferral(id, referral)
addReferral(s, id, referral) ==
    IF id \notin DOMAIN s THEN Fail(s)
    ELSE Done([s EXCEPT ![id].referrals = Append(@, referral)])

\* addLinkage(requestId, data): a pending linkage with a `submitted` entry
addLinkage(s, requestId, data, newId, t) ==
    IF requestId \notin DOMAIN s THEN Fail(s)
    ELSE LET linkage ==
                [id              |-> newId,
                 category        |-> OrElse(data.category, "collaboration"),
                 fromDept        |-> OrElse(data.fromDept, NULL),
                 toDept          |-> OrElse(data.toDept, NULL),
                 targetService   |-> OrElse(data.targetService, NULL),
                 approvalStatus  |-> "pending",
                 approvalHistory |-> <<HistEntry("submitted", OrElse(data.submittedBy, "handler"))>>,
                 executionStatus |-> NULL,
                 newRequestId    |-> NULL,
                 createdAt       |-> t,
                 updatedAt       |-> t]
         IN Done([s EXCEPT ![requestId].linkages = Append(@, linkage)])

\* the body the seven transition functions share: find the linkage, compare
\* its approvalStatus with the states the function accepts, then set the new
\* status, push one history entry, stamp updatedAt and write
GuardedTransition(s, requestId, linkageId, from, to, action, by, t) ==
    IF requestId \notin DOMAIN s THEN Fail(s)
    ELSE LET i == FindIdx(s[requestId].linkages, linkageId) IN
         IF i = 0 THEN Fail(s)
         ELSE IF s[requestId].linkages[i].approvalStatus \notin from THEN Fail(s)
         ELSE Done([s EXCEPT ![requestId].linkages[i] =
                      [@ EXCEPT !.approvalStatus = to,
                                !.approvalHistory = Append(@, HistEntry(action, by)),
                                !.updatedAt = t]])

\* mutant: also accepts a linkage the coordinator sent back for revision
deptApproveLinkage_Stale(s, requestId, linkageId, t) ==
    GuardedTransition(s, requestId, linkageId, {"pending", "revision_requested"},
                      "dept_approved", "dept_approved", "coordinator", t)

deptApproveLinkage(s, requestId, linkageId, t) ==
    GuardedTransition(s, requestId, linkageId, {"pending"},
                      "dept_approved", "dept_approved", "coordinator", t)

deptRejectLinkage(s, requestId, linkageId, t) ==
    GuardedTransition(s, requestId, linkageId, {"pending"},
                      "rejected", "rejected", "coordinator", t)

deptRequestRevision(s, requestId, linkageId, t) ==
    GuardedTransition(s, requestId, linkageId, {"pending"},
                      "revision_requested", "revision_requested", "coordinator", t)

\* mutant: the administrator may approve before the department decided
approveLinkage_FromPending(s, requestId, linkageId, t) ==
    GuardedTransition(s, requestId, linkageId, {"pending", "dept_approved"},
                      "approved", "approved", "admin", t)

\* mutant: the approval does not look at the current approvalStatus
approveLinkage_NoGuard(s, requestId, linkageId, t) ==
    GuardedTransition(s, requestId, linkageId,
                      {"pending", "dept_approved", "approved", "rejected",
                       "revision_requested", "admin_rejected",
                       "admin_revision_requested"},
                      "approved", "approved", "admin", t)

approveLinkage(s, requestId, linkageId, t) ==
    GuardedTransition(s, requestId, linkageId, {"dept_approved"},
                      "approved", "approved", "admin", t)

\* mutant: the administrator may reject before the department decided
rejectLinkage_FromPending(s, requestId, linkageId, t) ==
    GuardedTransition(s, requestId, linkageId, {"pending", "dept_approved"},
                      "admin_rejected", "admin_rejected", "admin", t)

rejectLinkage(s, requestId, linkageId, t) ==
    GuardedTransition(s, requestId, linkageId, {"dept_approved"},
                      "admin_rejected", "admin_rejected", "admin", t)

requestRevision(s, requestId, linkageId, t) ==
    GuardedTransition(s, requestId, linkageId, {"dept_approved"},
                      "admin_revision_requested", "admin_revision_requested", "admin", t)

deptResubmitLinkage(s, requestId, linkageId, t) ==
    GuardedTransition(s, requestId, linkageId,
                      {"admin_rejected", "admin_revision_requested"},
                      "dept_approved", "dept_resubmitted", "coordinator", t)

\* updateLinkage(requestId, linkageId, updates): copies every field of
\* `updates` that is not undefined, no guard on approvalStatus, no history
updateLinkage(s, requestId, linkageId, updates, t) ==
    IF requestId \notin DOMAIN s THEN Fail(s)
    ELSE LET i == FindIdx(s[requestId].linkages, linkageId) IN
         IF i = 0 THEN Fail(s)
         ELSE LET l == s[requestId].linkages[i]
                  Pick(f, old) == IF updates[f] # UNDEF THEN updates[f] ELSE old
              IN Done([s EXCEPT ![requestId].linkages[i] =
                        [l EXCEPT !.executionStatus = Pick("executionStatus", @),
                                  !.newRequestId    = Pick("newRequestId", @),
                                  !.approvalStatus  = Pick("approvalStatus", @),
                                  !.fromDept        = Pick("fromDept", @),
                                  !.toDept          = Pick("toDept", @),
                                  !.targetService   = Pick("targetService", @),
                                  !.updatedAt       = t]])

\* an `updates` object with no field set
NoUpdates ==
    [executionStatus |-> UNDEF, newRequestId |-> UNDEF, approvalStatus |-> UNDEF,
     fromDept |-> UNDEF, toDept |-> UNDEF, targetService |-> UNDEF]

\* addLinkageNote(requestId, linkageId, text, author, dept)
addLinkageNote(s, requestId, linkageId, t) ==
    IF requestId \notin DOMAIN s THEN Fail(s)
    ELSE LET i == FindIdx(s[requestId].linkages, linkageId) IN
         IF i = 0 THEN Fail(s)
         ELSE Done([s EXCEPT ![requestId].linkages[i] =
                      [@ EXCEPT !.updatedAt = t]])

\* ------------------------------------------------------------ server.js
Resp(op, lid, code) ==
    [op |-> op, lid |-> lid, code |-> code, emailError |-> FALSE]

NoLid == "none"

\* the code of a request whose handler is suspended and has not answered yet
Awaiting == 0

\* room left in the linkage's approvalHistory (the bound MaxHist)
HistRoom(lid) ==
    lid \in StoredLinkageIds(store) =>
        Len(LinkageOf(store, lid).approvalHistory) < MaxHist

\* the request bodies POST /api/case/:id/linkage is tried with
LinkageBodies ==
    {[category |-> "referral", fromDept |-> UNDEF, toDept |-> UNDEF,
      targetService |-> "svcB", reason |-> "r"],
     [category |-> "referral", fromDept |-> UNDEF, toDept |-> UNDEF,
      targetService |-> UNDEF, reason |-> "r"],
     [category |-> "collaboration", fromDept |-> "care", toDept |-> "emergency",
      targetService |-> UNDEF, reason |-> "r"],
     [category |-> "collaboration", fromDept |-> "care", toDept |-> UNDEF,
      targetService |-> UNDEF, reason |-> "r"],
     [category |-> "collaboration", fromDept |-> "care", toDept |-> "emergency",
      targetService |-> UNDEF, reason |-> ""]}

NextLinkageId == LinkageIdSeq[Cardinality(StoredLinkageIds(store)) + 1]
NextSpawnId   == SpawnIdSeq[Cardinality(DOMAIN store \cap SpawnIds) + 1]

\* POST /api/case/:id/linkage
CreateLinkage(id, body) ==
    /\ Cardinality(StoredLinkageIds(store)) < Len(LinkageIdSeq)
    /\ UNCHANGED <<now, inflight, dispatched, aux>>
    /\ IF ~Truthy(body.reason)
          \/ (body.category = "collaboration"
                /\ (~Truthy(body.fromDept) \/ ~Truthy(body.toDept)))
          \/ (body.category = "referral" /\ ~Truthy(body.targetService))
       THEN /\ resp' = Resp("createLinkage", NoLid, 400)
            /\ wrote' = FALSE
            /\ UNCHANGED store
       ELSE LET data == [category |-> body.category, fromDept |-> body.fromDept,
                         toDept |-> body.toDept,
                         targetService |-> body.targetService,
                         submittedBy |-> "handler"]
                r == addLinkage(store, id, data, NextLinkageId, now)
            IN /\ store' = r.store
               /\ wrote' = r.wrote
               /\ resp' = IF r.ok THEN Resp("createLinkage", NextLinkageId, 200)
                          ELSE Resp("createLinkage", NoLid, 404)

\* what such a handler does with the result r of its store function: scan
\* listAll() for the owner (404), answer 200 or failCode
TransitionAnswer(op, lid, r, failCode) ==
    /\ UNCHANGED <<now, inflight, dispatched, aux>>
    /\ IF Owners(store, lid) = {}
       THEN /\ resp' = Resp(op, lid, 404)
            /\ wrote' = FALSE
            /\ UNCHANGED store
       ELSE /\ store' = r.store
            /\ wrote' = r.wrote
            /\ resp' = Resp(op, lid, IF r.ok THEN 200 ELSE failCode)

\* mutant: a linkage that is not found is answered like a refused transition
TransitionHandler_NotFoundAsRefused(op, lid, r, failCode) ==
    /\ HistRoom(lid)
    /\ UNCHANGED <<now, inflight, dispatched, aux>>
    /\ IF Owners(store, lid) = {}
       THEN /\ resp' = Resp(op, lid, failCode)
            /\ wrote' = FALSE
            /\ UNCHANGED store
       ELSE /\ store' = r.store
            /\ wrote' = r.wrote
            /\ resp' = Resp(op, lid, IF r.ok THEN 200 ELSE failCode)

\* the shape of the six handlers that call one guarded store function:
\* scan listAll() for the owner (404), call the function (failCode), answer
TransitionHandler(op, lid, r, failCode) ==
    /\ HistRoom(lid)
    /\ TransitionAnswer(op, lid, r, failCode)

\* mutant: the department approval sends the notification too
DeptApprove_Notifies(lid) ==
    /\ HistRoom(lid)
    /\ Owners(store, lid) # {}
    /\ LET r == deptApproveLinkage(store, OwnerOf(store, lid), lid, now)
       IN /\ store' = r.store
          /\ wrote' = r.wrote
          /\ resp' = Resp("deptApprove", lid, IF r.ok THEN 200 ELSE 400)
    /\ dispatched' = [dispatched EXCEPT ![lid] = @ + 1]
    /\ UNCHANGED <<now, inflight, aux>>

\* POST /api/dept/linkage/:lid/approve
DeptApprove(lid) ==
    TransitionHandler("deptApprove", lid,
        deptApproveLinkage(store, OwnerOf(store, lid), lid, now), 400)

\* POST /api/dept/linkage/:lid/reject
DeptReject(lid) ==
    TransitionHandler("deptReject", lid,
        deptRejectLinkage(store, OwnerOf(store, lid), lid, now), 400)

\* POST /api/dept/linkage/:lid/revision
DeptRevision(lid) ==
    TransitionHandler("deptRevision", lid,
        deptRequestRevision(store, OwnerOf(store, lid), lid, now), 400)

\* POST /api/dept/linkage/:lid/resubmit
DeptResubmit(lid) ==
    TransitionHandler("deptResubmit", lid,
        deptResubmitLinkage(store, OwnerOf(store, lid), lid, now), 400)

\* POST /api/admin/linkage/:lid/reject
AdminReject(lid) ==
    TransitionHandler("adminReject", lid,
        rejectLinkage(store, OwnerOf(store, lid), lid, now), 500)

\* POST /api/admin/linkage/:lid/revision
AdminRevision(lid) ==
    TransitionHandler("adminRevision", lid,
        requestRevision(store, OwnerOf(store, lid), lid, now), 500)

\* POST /api/admin/linkage/:lid/approve, up to `await sendMail(...)`:
\* the guarded approval, the referral's new case, the parent's referral
\* entry, the linkage's newRequestId, and the call of sendMail
AdminApprove(lid) ==
    /\ UNCHANGED <<now, aux>>
    /\ IF Owners(store, lid) = {}
       THEN /\ resp' = Resp("adminApprove", lid, 404)
            /\ wrote' = FALSE
            /\ UNCHANGED <<store, inflight, dispatched>>
       ELSE LET targetReq     == store[OwnerOf(store, lid)]
                targetLinkage == LinkageOf(store, lid)
                r  == approveLinkage(store, targetReq.id, lid, now)
                newRequestId == NextSpawnId
                s2 == save(r.store,
                           [id           |-> newRequestId,
                            serviceName  |-> targetLinkage.targetService,
                            userName     |-> targetReq.userName,
                            userPhone    |-> targetReq.userPhone,
                            status       |-> "referred",
                            referredFrom |-> targetReq.id,
                            referrals    |-> <<>>,
                            linkages     |-> <<>>]).store
                s3 == addReferral(s2, targetReq.id,
                           [targetService |-> targetLinkage.targetService,
                            newRequestId  |-> newRequestId]).store
                s4 == updateLinkage(s3, targetReq.id, lid,
                           [NoUpdates EXCEPT !.newRequestId = newRequestId], now).store
            IN IF ~r.ok
               THEN /\ resp' = Resp("adminApprove", lid, 500)
                    /\ wrote' = FALSE
                    /\ UNCHANGED <<store, inflight, dispatched>>
               ELSE /\ store' = IF targetLinkage.category = "referral"
                                   /\ Truthy(targetLinkage.targetService)
                                THEN s4 ELSE r.store
                    /\ wrote' = TRUE
                    /\ dispatched' = [dispatched EXCEPT ![lid] = @ + 1]
                    /\ inflight' = [inflight EXCEPT ![lid] = @ + 1]
                    /\ resp' = Resp("adminApprove", lid, Awaiting)

\* the approval within the bounds of the model: room in the history and an
\* id left for the case to spawn
AdminApproveStart(lid) ==
    /\ HistRoom(lid)
    /\ Cardinality(DOMAIN store \cap SpawnIds) < Len(SpawnIdSeq)
    /\ AdminApprove(lid)

\* mutant: the completion writes back the linkage as the handler read it
\* before the await (approvalStatus 'approved' again)
DispatchOk_WritesBackRead(lid) ==
    /\ inflight[lid] > 0
    /\ LET r == updateLinkage(store, OwnerOf(store, lid), lid,
                    [NoUpdates EXCEPT !.executionStatus = "email_sent",
                                      !.approvalStatus = "approved"], now)
       IN /\ store' = r.store
          /\ wrote' = r.wrote
    /\ inflight' = [inflight EXCEPT ![lid] = @ - 1]
    /\ resp' = Resp("adminApprove", lid, 200)
    /\ UNCHANGED <<now, dispatched, aux>>

\* sendMail resolved: executionStatus = 'email_sent', then the response
DispatchOk(lid) ==
    /\ inflight[lid] > 0
    /\ LET r == updateLinkage(store, OwnerOf(store, lid), lid,
                    [NoUpdates EXCEPT !.executionStatus = "email_sent"], now)
       IN /\ store' = r.store
          /\ wrote' = r.wrote
    /\ inflight' = [inflight EXCEPT ![lid] = @ - 1]
    /\ resp' = Resp("adminApprove", lid, 200)
    /\ UNCHANGED <<now, dispatched, aux>>

\* mutant: a failed dispatch sends the linkage back to the administrator
DispatchFail_Rollback(lid) ==
    /\ inflight[lid] > 0
    /\ LET r == updateLinkage(store, OwnerOf(store, lid), lid,
                    [NoUpdates EXCEPT !.executionStatus = "email_failed",
                                      !.approvalStatus = "dept_approved"], now)
       IN /\ store' = r.store
          /\ wrote' = r.wrote
    /\ inflight' = [inflight EXCEPT ![lid] = @ - 1]
    /\ resp' = [Resp("adminApprove", lid, 200) EXCEPT !.emailError = TRUE]
    /\ UNCHANGED <<now, dispatched, aux>>

\* sendMail threw: executionStatus = 'email_failed', success with emailError
DispatchFail(lid) ==
    /\ inflight[lid] > 0
    /\ LET r == updateLinkage(store, OwnerOf(store, lid), lid,
                    [NoUpdates EXCEPT !.executionStatus = "email_failed"], now)
       IN /\ store' = r.store
          /\ wrote' = r.wrote
    /\ inflight' = [inflight EXCEPT ![lid] = @ - 1]
    /\ resp' = [Resp("adminApprove", lid, 200) EXCEPT !.emailError = TRUE]
    /\ UNCHANGED <<now, dispatched, aux>>

\* the request bodies PATCH /api/case/:id/linkage/:lid is tried with
PatchBodies ==
    [executionStatus : {UNDEF, "in_progress"},
     resubmit        : BOOLEAN]

\* mutant: the two branches of the resubmit flag swapped
ResubmitStatus_Swapped(s, id, lid) ==
    IF id \in DOMAIN s /\ FindIdx(s[id].linkages, lid) # 0
    THEN IF s[id].linkages[FindIdx(s[id].linkages, lid)].approvalStatus
               \in {"admin_rejected", "admin_revision_requested"}
         THEN "pending"
         ELSE "dept_approved"
    ELSE UNDEF

\* the approvalStatus the resubmit flag asks updateLinkage to set
ResubmitStatus(s, id, lid) ==
    IF id \in DOMAIN s /\ FindIdx(s[id].linkages, lid) # 0
    THEN IF s[id].linkages[FindIdx(s[id].linkages, lid)].approvalStatus
               \in {"admin_rejected", "admin_revision_requested"}
         THEN "dept_approved"
         ELSE "pending"
    ELSE UNDEF

\* PATCH /api/case/:id/linkage/:lid
PatchLinkage(id, lid, body) ==
    LET updates == [NoUpdates EXCEPT
                       !.executionStatus = body.executionStatus,
                       !.approvalStatus  = IF body.resubmit
                                           THEN ResubmitStatus(store, id, lid)
                                           ELSE UNDEF]
        r == updateLinkage(store, id, lid, updates, now)
    IN /\ store' = r.store
       /\ wrote' = r.wrote
       /\ resp' = Resp("patchLinkage", lid, IF r.ok THEN 200 ELSE 404)
       /\ UNCHANGED <<now, inflight, dispatched, aux>>

\* the values PATCH /api/case/:requestId/collaboration/:collabId is tried with
ExecStatusBodies == {"in_progress", "email_sent"}

\* PATCH /api/case/:requestId/collaboration/:collabId
PatchExecution(requestId, collabId, status) ==
    /\ UNCHANGED <<now, inflight, dispatched, aux>>
    /\ IF status \notin {"in_progress", "completed", "declined"}
       THEN /\ resp' = Resp("patchExecution", collabId, 400)
            /\ wrote' = FALSE
            /\ UNCHANGED store
       ELSE LET r == updateLinkage(store, requestId, collabId,
                        [NoUpdates EXCEPT !.executionStatus = status], now)
            IN /\ store' = r.store
               /\ wrote' = r.wrote
               /\ resp' = Resp("patchExecution", collabId, IF r.ok THEN 200 ELSE 404)

\* POST /api/case/:id/linkage/:lid/notes
PostLinkageNote(id, lid, text) ==
    /\ UNCHANGED <<now, inflight, dispatched, aux>>
    /\ IF ~Truthy(text)
       THEN /\ resp' = Resp("linkageNote", lid, 400)
            /\ wrote' = FALSE
            /\ UNCHANGED store
       ELSE LET r == addLinkageNote(store, id, lid, now)
            IN /\ store' = r.store
               /\ wrote' = r.wrote
               /\ resp' = Resp("linkageNote", lid, IF r.ok THEN 200 ELSE 404)

\* time passes
Tick ==
    /\ now < MaxClock
    /\ now' = now + 1
    /\ UNCHANGED <<store, inflight, dispatched, resp, wrote, aux>>

\* ------------------------------------------------------------ the system
\* one case accepted from a citizen, no linkage yet
Init ==
    /\ store = (RootCase :>
                  [id           |-> RootCase,
                   serviceName  |-> "svcA",
                   userName     |-> "u1",
                   userPhone    |-> "p1",
                   status       |-> "open",
                   referredFrom |-> NULL,
                   referrals    |-> <<>>,
                   linkages     |-> <<>>])
    /\ now = 0
    /\ inflight = [l \in LinkageIds |-> 0]
    /\ dispatched = [l \in LinkageIds |-> 0]
    /\ resp = Resp("none", NoLid, 0)
    /\ wrote = FALSE
    /\ AuxIdle

Next ==
    \/ \E id \in DOMAIN store, body \in LinkageBodies : CreateLinkage(id, body)
    \/ \E lid \in LinkageIds : DeptApprove(lid)
    \/ \E lid \in LinkageIds : DeptReject(lid)
    \/ \E lid \in LinkageIds : DeptRevision(lid)
    \/ \E lid \in LinkageIds : DeptResubmit(lid)
    \/ \E lid \in LinkageIds : AdminApproveStart(lid)
    \/ \E lid \in LinkageIds : DispatchOk(lid)
    \/ \E lid \in LinkageIds : DispatchFail(lid)
    \/ \E lid \in LinkageIds : AdminReject(lid)
    \/ \E lid \in LinkageIds : AdminRevision(lid)
    \/ \E id \in DOMAIN store, lid \in LinkageIds, body \in PatchBodies :
          PatchLinkage(id, lid, body)
    \/ \E id \in DOMAIN store, lid \in LinkageIds, st \in ExecStatusBodies :
          PatchExecution(id, lid, st)
    \/ \E id \in DOMAIN store, lid \in LinkageIds, text \in {"", "t"} :
          PostLinkageNote(id, lid, text)
    \/ Tick

Spec == Init /\ [][Next]_vars

\* -------------------------------------------------------- observations
Exists(lid) == lid \in StoredLinkageIds(store)

Status(lid)  == LinkageOf(store, lid).approvalStatus
History(lid) == LinkageOf(store, lid).approvalHistory
Exec(lid)    == LinkageOf(store, lid).executionStatus

\* a step of the handler `op` on linkage lid (a repeated request that
\* changes nothing is a stuttering step)
Handled(op, lid) ==
    /\ resp'.op = op
    /\ resp'.lid = lid
    /\ <<store, inflight, dispatched, resp, wrote>>'
          # <<store, inflight, dispatched, resp, wrote>>

\* the code a handler answers (or, suspended, holds) when its transition
\* was performed
Performed(op) == IF op = "adminApprove" THEN Awaiting ELSE 200

\* the states each guarded transition accepts
Precondition(op) ==
    CASE op \in {"deptApprove", "deptReject", "deptRevision"} -> {"pending"}
      [] op \in {"adminApprove", "adminReject", "adminRevision"} -> {"dept_approved"}
      [] op = "deptResubmit" -> {"admin_rejected", "admin_revision_requested"}

GuardedOps ==
    {"deptApprove", "deptReject", "deptRevision", "deptResubmit",
     "adminApprove", "adminReject", "adminRevision"}

\* the start or the rejection of a guarded request (not the completion of a
\* suspended approval)
GuardedStep(op, lid) ==
    Handled(op, lid) /\ ~(op = "adminApprove" /\ resp'.code = 200)

\* C1: a guarded transition requested for an existing linkage is performed
\* if and only if the linkage's approvalStatus is the function's
\* precondition; a request that is not performed leaves the store (hence
\* approvalStatus, approvalHistory and updatedAt) as it was and writes nothing.
C1_GuardedCompareAndSet ==
    [][\A lid \in LinkageIds, op \in GuardedOps :
         (Exists(lid) /\ GuardedStep(op, lid)) =>
            /\ (resp'.code = Performed(op)) <=> (Status(lid) \in Precondition(op))
            /\ (resp'.code # Performed(op)) => (store' = store /\ wrote' = FALSE)
            /\ (resp'.code = Performed(op)) => wrote' = TRUE]_vars

\* a department approval refused because the linkage was already approved
\* by the department
C1_Witness ==
    /\ resp = Resp("deptApprove", "l1", 400)
    /\ Exists("l1")
    /\ Status("l1") = "dept_approved"
    /\ wrote = FALSE

\* the edges of the approval state machine
Edges ==
    {<<"pending", "dept_approved">>, <<"pending", "rejected">>,
     <<"pending", "revision_requested">>, <<"dept_approved", "approved">>,
     <<"dept_approved", "admin_rejected">>,
     <<"dept_approved", "admin_revision_requested">>,
     <<"admin_rejected", "dept_approved">>,
     <<"admin_revision_requested", "dept_approved">>}

HasDeptApproval(h) == \E i \in 1..Len(h) : h[i].action = "dept_approved"

\* C3: a linkage becomes approved only by the administrator approval of a
\* dept_approved linkage; it first becomes dept_approved only by the
\* department approval of the pending linkage; and a linkage that is
\* dept_approved, approved or returned by the administrator carries a
\* dept_approved entry in its history.
C3_TwoStageOrder ==
    [][\A lid \in StoredLinkageIds(store') :
         LET new == LinkageOf(store', lid) IN
         /\ new.approvalStatus \in {"dept_approved", "approved", "admin_rejected",
                                    "admin_revision_requested"}
               => HasDeptApproval(new.approvalHistory)
         /\ (new.approvalStatus = "approved"
               /\ (Exists(lid) => Status(lid) # "approved"))
               => /\ Exists(lid)
                  /\ Status(lid) = "dept_approved"
                  /\ Handled("adminApprove", lid)
         /\ (new.approvalStatus = "dept_approved"
               /\ (Exists(lid) => ~HasDeptApproval(History(lid))))
               => /\ Exists(lid)
                  /\ Status(lid) = "pending"
                  /\ Handled("deptApprove", lid)]_vars

Actions(h) == [i \in 1..Len(h) |-> h[i].action]

\* the plain sequence: submitted, approved by the department, approved by the
\* administrator
C3_Witness ==
    /\ Exists("l1")
    /\ Status("l1") = "approved"
    /\ Actions(History("l1")) = <<"submitted", "dept_approved", "approved">>

\* the history action named for a change of approvalStatus
ActionFor(old, new) ==
    IF new = "dept_approved"
    THEN (IF old = "pending" THEN "dept_approved" ELSE "dept_resubmitted")
    ELSE new

IsPrefix(h, g) == Len(h) <= Len(g) /\ \A i \in 1..Len(h) : g[i] = h[i]

\* C4 (as claimed): each change of approvalStatus appends exactly one entry,
\* named for the transition, to approvalHistory; the history never shrinks
\* and its entries are never changed.
C4_OneEntryPerChange ==
    [][\A lid \in LinkageIds :
         Exists(lid) =>
            LET old == LinkageOf(store, lid)
                new == LinkageOf(store', lid)
            IN /\ IsPrefix(old.approvalHistory, new.approvalHistory)
               /\ new.approvalStatus # old.approvalStatus
                     => /\ Len(new.approvalHistory) = Len(old.approvalHistory) + 1
                        /\ new.approvalHistory[Len(new.approvalHistory)].action
                              = ActionFor(old.approvalStatus, new.approvalStatus)]_vars

\* C5: an administrator approval requested for an existing linkage that is
\* not dept_approved is refused and changes nothing: the store (status,
\* history, cases, referrals, newRequestId, executionStatus) is as before,
\* nothing is written and no notification is dispatched.
C5_RefusedApprovalChangesNothing ==
    [][\A lid \in LinkageIds :
         (Exists(lid) /\ GuardedStep("adminApprove", lid)
            /\ Status(lid) # "dept_approved") =>
            /\ resp'.code = 500
            /\ store' = store
            /\ wrote' = FALSE
            /\ dispatched' = dispatched
            /\ inflight' = inflight]_vars

\* the administrator approval of a linkage that is still pending was refused
C5_Witness ==
    /\ Exists("l1")
    /\ resp = Resp("adminApprove", "l1", 500)
    /\ Status("l1") = "pending"
    /\ Actions(History("l1")) = <<"submitted">>
    /\ Exec("l1") = NULL
    /\ LinkageOf(store, "l1").newRequestId = NULL
    /\ DOMAIN store = {RootCase}
    /\ dispatched["l1"] = 0

\* C6: the administrator approval of a dept_approved referral linkage with a
\* target service creates exactly one case (service the target, applicant
\* copied from the parent, status referred, referredFrom the parent), adds
\* exactly one entry naming it to the parent's referrals, and sets the
\* linkage's newRequestId to it; the successful dispatch then sets
\* executionStatus to email_sent and creates nothing more.
C6_ReferralApprovalSpawnsOneCase ==
    [][\A lid \in LinkageIds :
         Exists(lid) =>
            LET parent == OwnerOf(store, lid)
                old    == LinkageOf(store, lid)
                new    == LinkageOf(store', lid)
            IN /\ (Handled("adminApprove", lid) /\ resp'.code = Awaiting
                     /\ old.category = "referral" /\ Truthy(old.targetService)) =>
                     \E n \in CaseIds :
                        /\ DOMAIN store' = DOMAIN store \cup {n}
                        /\ n \notin DOMAIN store
                        /\ store'[n].serviceName = old.targetService
                        /\ store'[n].userName = store[parent].userName
                        /\ store'[n].userPhone = store[parent].userPhone
                        /\ store'[n].status = "referred"
                        /\ store'[n].referredFrom = parent
                        /\ store'[parent].referrals =
                              Append(store[parent].referrals,
                                     [targetService |-> old.targetService,
                                      newRequestId  |-> n])
                        /\ new.newRequestId = n
               /\ (Handled("adminApprove", lid) /\ resp'.code = 200
                     /\ ~resp'.emailError) =>
                     /\ new.executionStatus = "email_sent"
                     /\ new.newRequestId = old.newRequestId
                     /\ DOMAIN store' = DOMAIN store
                     /\ store'[parent].referrals = store[parent].referrals]_vars

\* create, department approval, administrator approval, dispatch succeeded
C6_Witness ==
    /\ Exists("l1")
    /\ resp = Resp("adminApprove", "l1", 200)
    /\ Actions(History("l1")) = <<"submitted", "dept_approved", "approved">>
    /\ LinkageOf(store, "l1").category = "referral"
    /\ Exec("l1") = "email_sent"
    /\ LinkageOf(store, "l1").newRequestId = "n1"
    /\ DOMAIN store = {RootCase, "n1"}
    /\ store["n1"].status = "referred"
    /\ store["n1"].referredFrom = RootCase
    /\ Len(store[RootCase].referrals) = 1

\* C7: a failed dispatch rolls nothing back: approvalStatus and
\* approvalHistory are as they were (an approved linkage stays approved), the
\* spawned case, the parent's referral entry and newRequestId remain, and
\* executionStatus records the failure (email_failed, not email_sent).
C7_DispatchFailureKeepsApproval ==
    [][\A lid \in LinkageIds :
         (Exists(lid) /\ Handled("adminApprove", lid) /\ resp'.emailError) =>
            LET parent == OwnerOf(store, lid)
                old    == LinkageOf(store, lid)
                new    == LinkageOf(store', lid)
            IN /\ resp'.code = 200
               /\ new.approvalStatus = old.approvalStatus
               /\ new.approvalHistory = old.approvalHistory
               /\ new.newRequestId = old.newRequestId
               /\ new.executionStatus = "email_failed"
               /\ DOMAIN store' = DOMAIN store
               /\ \A c \in DOMAIN store \ {parent} : store'[c] = store[c]
               /\ store'[parent].referrals = store[parent].referrals]_vars

\* a referral approved by both stages whose dispatch failed
C7_Witness ==
    /\ Exists("l1")
    /\ resp = [Resp("adminApprove", "l1", 200) EXCEPT !.emailError = TRUE]
    /\ Status("l1") = "approved"
    /\ History("l1")[Len(History("l1"))].action = "approved"
    /\ Exec("l1") = "email_failed"
    /\ LinkageOf(store, "l1").newRequestId = "n1"
    /\ "n1" \in DOMAIN store
    /\ Len(store[RootCase].referrals) = 1

ApprovedCount(h) == Cardinality({i \in 1..Len(h) : h[i].action = "approved"})

\* C8: sendMail is called for a linkage only by the administrator approval
\* handler, once, in the step that performed the transition dept_approved ->
\* approved and wrote it to the store; never by a refused approval or by
\* another handler.  So a linkage has had as many dispatches as its history
\* has approved entries.
C8_OneDispatchPerApproval ==
    [][\A lid \in LinkageIds :
         /\ (lid \notin StoredLinkageIds(store')) => dispatched'[lid] = 0
         /\ (lid \in StoredLinkageIds(store')) =>
               dispatched'[lid]
                  = ApprovedCount(LinkageOf(store', lid).approvalHistory)
         /\ dispatched'[lid] # dispatched[lid] =>
               /\ dispatched'[lid] = dispatched[lid] + 1
               /\ Exists(lid)
               /\ Status(lid) = "dept_approved"
               /\ Handled("adminApprove", lid)
               /\ resp'.code = Awaiting
               /\ wrote' = TRUE
               /\ LinkageOf(store', lid).approvalStatus = "approved"
               /\ LinkageOf(store', lid).approvalHistory
                     = Append(History(lid), HistEntry("approved", "admin"))]_vars

\* the approval was written and its one dispatch is under way
C8_Witness ==
    /\ Exists("l1")
    /\ resp = Resp("adminApprove", "l1", Awaiting)
    /\ Status("l1") = "approved"
    /\ dispatched["l1"] = 1
    /\ inflight["l1"] = 1

\* the approvals of referral linkages recorded in the histories of case c
ReferralApprovals(s, c) ==
    Cardinality({p \in (1..Len(s[c].linkages)) \X (1..MaxHist) :
                    /\ s[c].linkages[p[1]].category = "referral"
                    /\ p[2] <= Len(s[c].linkages[p[1]].approvalHistory)
                    /\ s[c].linkages[p[1]].approvalHistory[p[2]].action = "approved"})

Children(s, c) == {n \in DOMAIN s : s[n].referredFrom = c}

\* C9: administrator approvals of one linkage interleave only at the await
\* on sendMail, after the compare-and-set: a request that finds the linkage
\* dept_approved performs the transition, every request that finds it in
\* another state (for one, approved by a request still suspended) is refused
\* and spawns and dispatches nothing.  Cases spawned, referral entries and
\* dispatches therefore each number the approvals performed.
C9_InterleavedApprovalsPerformOnce ==
    [][/\ \A lid \in LinkageIds :
            (Exists(lid) /\ GuardedStep("adminApprove", lid)) =>
               IF Status(lid) = "dept_approved"
               THEN /\ resp'.code = Awaiting
                    /\ LinkageOf(store', lid).approvalStatus = "approved"
                    /\ dispatched'[lid] = dispatched[lid] + 1
               ELSE /\ resp'.code = 500
                    /\ UNCHANGED <<store, dispatched, inflight>>
       /\ \A lid \in StoredLinkageIds(store') :
            /\ dispatched'[lid]
                  = ApprovedCount(LinkageOf(store', lid).approvalHistory)
            /\ inflight'[lid] <= dispatched'[lid]
       /\ \A c \in DOMAIN store' :
            /\ Cardinality(Children(store', c)) = ReferralApprovals(store', c)
            /\ Len(store'[c].referrals) = ReferralApprovals(store', c)]_vars

\* a second approval arrived while the first was suspended at sendMail: it
\* was refused, and there is one spawned case and one dispatch
C9_Witness ==
    /\ Exists("l1")
    /\ resp = Resp("adminApprove", "l1", 500)
    /\ inflight["l1"] = 1
    /\ dispatched["l1"] = 1
    /\ Status("l1") = "approved"
    /\ LinkageOf(store, "l1").category = "referral"
    /\ Cardinality(Children(store, RootCase)) = 1

\* C10 (as claimed): a linkage created by addLinkage whose executionStatus is
\* not null is approved.
C10_ExecutionStatusOnlyWhenApproved ==
    \A lid \in StoredLinkageIds(store) :
        Exec(lid) # NULL => Status(lid) = "approved"

\* C12: no operation deletes a case or removes a linkage from its case: every
\* stored case stays stored under its id, and the linkages of each case keep
\* their places and ids while new ones are appended.
C12_NothingRemoved ==
    [][\A c \in DOMAIN store :
         /\ c \in DOMAIN store'
         /\ store'[c].id = c
         /\ Len(store'[c].linkages) >= Len(store[c].linkages)
         /\ \A i \in 1..Len(store[c].linkages) :
               store'[c].linkages[i].id = store[c].linkages[i].id]_vars

\* the linkage, its case and the spawned case are still stored after the
\* referral was approved, reset to pending and approved by the department again
C12_Witness ==
    /\ DOMAIN store = {RootCase, "n1"}
    /\ StoredLinkageIds(store) = {"l1"}
    /\ OwnerOf(store, "l1") = RootCase
    /\ Actions(History("l1"))
          = <<"submitted", "dept_approved", "approved", "dept_approved">>

\* C14: every transition endpoint answers a request for an unknown linkage
\* with not-found (404) and a request for a stored linkage in the wrong state
\* with another code (400 from the department endpoints, 500 from the
\* administrator's); 404 is answered only when the linkage is unknown; in both
\* cases the store is unchanged and nothing is written.
C14_NotFoundVersusInvalidState ==
    [][\A lid \in LinkageIds, op \in GuardedOps :
         GuardedStep(op, lid) =>
            /\ ~Exists(lid) =>
                  resp'.code = 404 /\ store' = store /\ wrote' = FALSE
            /\ (Exists(lid) /\ Status(lid) \notin Precondition(op)) =>
                  /\ resp'.code \in {400, 500}
                  /\ store' = store
                  /\ wrote' = FALSE
            /\ resp'.code = 404 => ~Exists(lid)]_vars

\* a resubmission by the department refused because the linkage is approved,
\* not returned by the administrator
C14_Witness ==
    /\ Exists("l1")
    /\ resp = Resp("deptResubmit", "l1", 400)
    /\ Status("l1") = "approved"

\* ================================================== the status of a case
\* updateStatus(id, status); the updatedAt stamp of the case is not kept
updateStatus(s, id, status) ==
    IF id \notin DOMAIN s THEN Fail(s)
    ELSE Done([s EXCEPT ![id].status = status])

\* STEPS.indexOf(status), with -1 for a value that is not a step
STEPS == <<"open", "confirmed", "contacted", "connected", "closed">>

indexOf(seq, v) ==
    IF \E i \in 1..Len(seq) : seq[i] = v
    THEN (CHOOSE i \in 1..Len(seq) : seq[i] = v) - 1
    ELSE -1

\* the `valid` list of the administrator's endpoint
AdminValidStatuses ==
    {"open", "confirmed", "contacted", "connected", "closed", "referred"}

\* the status values the two endpoints are tried with
StatusBodies == AdminValidStatuses \cup {"bogus"}

\* the ids the endpoints are tried with: the stored cases and one unknown
RequestIds == CaseIds \cup {"c9"}

StatusResp(op, id, status, code) ==
    [op |-> op, id |-> id, status |-> status, code |-> code]

\* PATCH /api/case/:requestId/status
PatchCaseStatus(requestId, status) ==
    /\ UNCHANGED <<now, inflight, dispatched, aux>>
    /\ IF requestId \notin DOMAIN store
       THEN /\ resp' = StatusResp("caseStatus", requestId, status, 404)
            /\ wrote' = FALSE
            /\ UNCHANGED store
       ELSE LET currentIdx == indexOf(STEPS, store[requestId].status)
                targetIdx  == indexOf(STEPS, status)
                r == updateStatus(store, requestId, status)
            IN IF targetIdx = -1 \/ targetIdx <= currentIdx
               THEN /\ resp' = StatusResp("caseStatus", requestId, status, 400)
                    /\ wrote' = FALSE
                    /\ UNCHANGED store
               ELSE /\ store' = r.store
                    /\ wrote' = r.wrote
                    /\ resp' = StatusResp("caseStatus", requestId, status, 200)

\* PATCH /api/admin/requests/:id/status
AdminPatchStatus(id, status) ==
    /\ UNCHANGED <<now, inflight, dispatched, aux>>
    /\ IF status \notin AdminValidStatuses
       THEN /\ resp' = StatusResp("adminStatus", id, status, 400)
            /\ wrote' = FALSE
            /\ UNCHANGED store
       ELSE LET r == updateStatus(store, id, status)
            IN /\ store' = r.store
               /\ wrote' = r.wrote
               /\ resp' = StatusResp("adminStatus", id, status,
                                     IF r.ok THEN 200 ELSE 404)

\* an applicant's case and the case a finally approved referral of it spawned
StatusInit ==
    /\ store = ("c1" :>
                  [id           |-> "c1",
                   serviceName  |-> "svcA",
                   userName     |-> "u1",
                   userPhone    |-> "p1",
                   status       |-> "open",
                   referredFrom |-> NULL,
                   referrals    |-> <<[targetService |-> "svcB",
                                       newRequestId  |-> "n1"]>>,
                   linkages     |-> <<>>])
               @@ ("n1" :>
                  [id           |-> "n1",
                   serviceName  |-> "svcB",
                   userName     |-> "u1",
                   userPhone    |-> "p1",
                   status       |-> "referred",
                   referredFrom |-> "c1",
                   referrals    |-> <<>>,
                   linkages     |-> <<>>])
    /\ now = 0
    /\ inflight = [l \in LinkageIds |-> 0]
    /\ dispatched = [l \in LinkageIds |-> 0]
    /\ resp = StatusResp("none", "none", "none", 0)
    /\ wrote = FALSE
    /\ AuxIdle

StatusNext ==
    \/ \E id \in RequestIds, st \in StatusBodies : PatchCaseStatus(id, st)
    \/ \E id \in RequestIds, st \in StatusBodies : AdminPatchStatus(id, st)

StatusSpec == StatusInit /\ [][StatusNext]_allvars

\* a request of one of the two status endpoints for case c
StatusRequest(c) ==
    /\ resp'.op \in {"caseStatus", "adminStatus"}
    /\ resp'.id = c
    /\ <<store, resp>>' # <<store, resp>>

\* C11 (as claimed): a status update requested from a to b, with b before or
\* equal to a in open, confirmed, contacted, connected, closed, fails and
\* leaves the status of the case as it was, on both status endpoints.
C11_NoBackwardStatusUpdate ==
    [][\A c \in DOMAIN store :
         (/\ StatusRequest(c)
          /\ indexOf(STEPS, store[c].status) # -1
          /\ indexOf(STEPS, resp'.status) # -1
          /\ indexOf(STEPS, resp'.status) <= indexOf(STEPS, store[c].status))
            => /\ resp'.code # 200
               /\ store'[c].status = store[c].status]_allvars

\* C29 (as claimed): no request of a status endpoint moves a stored case from
\* another status to referred, and no request changes the status of a case
\* that is closed.
C29_ReferredOnlyBySpawnClosedFinal ==
    [][\A c \in DOMAIN store :
         /\ (store[c].status # "referred" /\ c \in DOMAIN store')
               => store'[c].status # "referred"
         /\ (store[c].status = "closed" /\ c \in DOMAIN store')
               => store'[c].status = "closed"]_allvars

\* ============================================ the creation of a linkage
\* the request bodies the two creation endpoints are tried with
CreateBodies ==
    [category      : {UNDEF, "referral", "collaboration"},
     fromDept      : {UNDEF, "care", "emergency"},
     toDept        : {UNDEF, "care", "emergency"},
     targetService : {UNDEF, "svcB"},
     reason        : {"", "r"}]

\* POST /api/case/:requestId/collaboration
PostCollaboration(requestId, body) ==
    /\ Cardinality(StoredLinkageIds(store)) < Len(LinkageIdSeq)
    /\ UNCHANGED <<now, inflight, dispatched, aux>>
    /\ IF ~Truthy(body.fromDept) \/ ~Truthy(body.toDept) \/ ~Truthy(body.reason)
          \/ body.fromDept = body.toDept
       THEN /\ resp' = Resp("collaboration", NoLid, 400)
            /\ wrote' = FALSE
            /\ UNCHANGED store
       ELSE LET data == [category |-> "collaboration", fromDept |-> body.fromDept,
                         toDept |-> body.toDept, targetService |-> UNDEF,
                         submittedBy |-> "handler"]
                r == addLinkage(store, requestId, data, NextLinkageId, now)
            IN /\ store' = r.store
               /\ wrote' = r.wrote
               /\ resp' = IF r.ok THEN Resp("collaboration", NextLinkageId, 200)
                          ELSE Resp("collaboration", NoLid, 404)

\* POST /api/referral/:requestId/send
PostReferralSend(requestId, body) ==
    /\ Cardinality(StoredLinkageIds(store)) < Len(LinkageIdSeq)
    /\ UNCHANGED <<now, inflight, dispatched, aux>>
    /\ IF requestId \notin DOMAIN store
       THEN /\ resp' = Resp("referralSend", NoLid, 404)
            /\ wrote' = FALSE
            /\ UNCHANGED store
       ELSE LET data == [category |-> "referral", fromDept |-> UNDEF,
                         toDept |-> UNDEF, targetService |-> body.targetService,
                         submittedBy |-> "handler"]
                r == addLinkage(store, requestId, data, NextLinkageId, now)
            IN /\ store' = r.store
               /\ wrote' = r.wrote
               /\ resp' = IF r.ok THEN Resp("referralSend", NextLinkageId, 200)
                          ELSE Resp("referralSend", NoLid, 404)

CreateNext ==
    \/ \E id \in CaseIds, body \in CreateBodies : PostCollaboration(id, body)
    \/ \E id \in CaseIds, body \in CreateBodies : PostReferralSend(id, body)
    \/ \E id \in CaseIds, body \in CreateBodies : CreateLinkage(id, body)
    \/ Tick

\* the three endpoints that create a linkage
CreateSpec == Init /\ [][CreateNext]_allvars

\* C13 (as claimed): a collaboration request without a reason or with
\* fromDept equal to toDept is rejected by both creation endpoints before the
\* store is touched, so no stored collaboration linkage names one department
\* as both fromDept and toDept.
C13_NoSelfCollaboration ==
    \A lid \in StoredLinkageIds(store) :
        (LinkageOf(store, lid).category = "collaboration"
           /\ Truthy(LinkageOf(store, lid).fromDept))
            => LinkageOf(store, lid).fromDept # LinkageOf(store, lid).toDept

\* ===================================================== dates and sorting
\* the two forms in which the code stores an instant t: toISOString() and
\* toLocaleString('ko-KR'), the display string (year. month. day. AM/PM h:mm:ss)
Iso(t)       == [fmt |-> "iso", t |-> t]
KoDisplay(t) == [fmt |-> "ko", t |-> t]

\* a JavaScript number: NaN or an integer
Num(v) == [nan |-> FALSE, v |-> v]
NaN    == [nan |-> TRUE, v |-> 0]

\* new Date(str) as a number: the instant of an ISO string; NaN (Invalid Date)
\* for the display string, which Date cannot parse
DateValue(str) == IF str.fmt = "iso" THEN Num(str.t) ELSE NaN

\* x - y of JavaScript numbers
Minus(x, y) == IF x.nan \/ y.nan THEN NaN ELSE Num(x.v - y.v)

\* the number Array.prototype.sort takes from its comparator: NaN counts as 0
SortOrder(x) == IF x.nan THEN 0 ELSE x.v

\* Array.prototype.sort as Node runs it on an array shorter than 64 elements,
\* on the positions s of the array, with c[i, j] the comparator's value for
\* the elements at i and j: the first run is found (and reversed when strictly
\* descending), the remaining elements are placed by binary insertion
RECURSIVE RunEnd(_, _, _, _)
RunEnd(c, s, desc, idx) ==
    IF idx > Len(s) THEN Len(s)
    ELSE LET order == c[s[idx], s[idx - 1]] IN
         IF (desc /\ order >= 0) \/ (~desc /\ order < 0) THEN idx - 1
         ELSE RunEnd(c, s, desc, idx + 1)

Reverse(s) == [i \in 1..Len(s) |-> s[Len(s) + 1 - i]]

RECURSIVE InsertPos(_, _, _, _, _)
InsertPos(c, s, pivot, left, right) ==
    IF left >= right THEN left
    ELSE LET mid == left + ((right - left) \div 2) IN
         IF c[pivot, s[mid]] < 0 THEN InsertPos(c, s, pivot, left, mid)
         ELSE InsertPos(c, s, pivot, mid + 1, right)

RECURSIVE BinaryInsertionSort(_, _, _)
BinaryInsertionSort(c, s, start) ==
    IF start > Len(s) THEN s
    ELSE LET pivot == s[start]
             left  == InsertPos(c, s, pivot, 1, start)
         IN BinaryInsertionSort(c,
                SubSeq(s, 1, left - 1) \o <<pivot>> \o SubSeq(s, left, start - 1)
                    \o SubSeq(s, start + 1, Len(s)),
                start + 1)

\* the sorted order of positions 1..n under the comparator values c
SortedPositions(n, c) ==
    LET s == [i \in 1..n |-> i] IN
    IF n < 2 THEN s
    ELSE LET desc == c[2, 1] < 0
             run  == RunEnd(c, s, desc, 3)
             s1   == IF desc
                     THEN Reverse(SubSeq(s, 1, run)) \o SubSeq(s, run + 1, n)
                     ELSE s
         IN BinaryInsertionSort(c, s1, run + 1)

\* ============================================== the approval queues
\* Object.values(store): the cases in the order their keys were inserted
RECURSIVE ObjectValues(_, _)
ObjectValues(s, order) ==
    IF order = <<>> THEN <<>>
    ELSE (IF Head(order) \in DOMAIN s THEN <<s[Head(order)]>> ELSE <<>>)
            \o ObjectValues(s, Tail(order))

\* {...l, requestId: req.id, userName: req.userName, serviceName: req.serviceName}
QueueItem(req, l) ==
    [id |-> l.id, approvalStatus |-> l.approvalStatus, createdAt |-> l.createdAt,
     requestId |-> req.id, userName |-> req.userName,
     serviceName |-> req.serviceName]

\* the inner loop: the linkages of req with a status in `statuses`, in order
RECURSIVE PushMatching(_, _, _)
PushMatching(req, links, statuses) ==
    IF links = <<>> THEN <<>>
    ELSE (IF Head(links).approvalStatus \in statuses
          THEN <<QueueItem(req, Head(links))>> ELSE <<>>)
            \o PushMatching(req, Tail(links), statuses)

\* the outer loop over the cases
RECURSIVE CollectLinkages(_, _)
CollectLinkages(reqs, statuses) ==
    IF reqs = <<>> THEN <<>>
    ELSE PushMatching(Head(reqs), Head(reqs).linkages, statuses)
            \o CollectLinkages(Tail(reqs), statuses)

\* result.sort((a, b) => new Date(b.createdAt) - new Date(a.createdAt))
SortNewestFirst(result) ==
    LET n == Len(result)
        c == [i \in 1..n, j \in 1..n |->
                SortOrder(Minus(DateValue(result[j].createdAt),
                                DateValue(result[i].createdAt)))]
        p == SortedPositions(n, c)
    IN [k \in 1..n |-> result[p[k]]]

\* the body the three queue functions share
LinkagesWithStatus(s, order, statuses) ==
    SortNewestFirst(CollectLinkages(ObjectValues(s, order), statuses))

getDeptPendingApprovals(s, order) == LinkagesWithStatus(s, order, {"pending"})

getPendingApprovals(s, order) == LinkagesWithStatus(s, order, {"dept_approved"})

getAdminReturnedItems(s, order) ==
    LinkagesWithStatus(s, order, {"admin_rejected", "admin_revision_requested"})

ApprovalStatuses ==
    {"pending", "dept_approved", "approved", "rejected", "revision_requested",
     "admin_rejected", "admin_revision_requested"}

QueryCaseOrder == <<"c1", "c2">>

QueryLinkageIds == <<"q1", "q2", "q3">>

\* a linkage as addLinkage made it (createdAt an ISO string) in the state the
\* workflow brought it to, or as migrateToLinkages made it from a referrals
\* entry (createdAt the entry's sentAt, a display string; approved, or where
\* the update endpoint's resubmit flag and the workflow took it from there)
QueryLinkages ==
    [id : {"q"}, approvalStatus : ApprovalStatuses,
     createdAt : {Iso(t) : t \in 0..MaxClock} \cup {KoDisplay(0)}]

\* the linkages of one case are in the order they were pushed
PushOrder(links) ==
    \A i, j \in 1..Len(links) :
        (i < j /\ links[i].createdAt.fmt = "iso" /\ links[j].createdAt.fmt = "iso")
            => links[i].createdAt.t <= links[j].createdAt.t

QueueResult(q, statuses, result) ==
    [query |-> q, statuses |-> statuses, result |-> result]

QueryCase(id, name, service, links) ==
    [id |-> id, userName |-> name, serviceName |-> service, linkages |-> links]

\* two cases that hold three linkages between them; no queue read yet
QueryInit ==
    /\ \E L \in [1..Len(QueryLinkageIds) -> QueryLinkages],
          k \in 0..Len(QueryLinkageIds) :
          LET all == [i \in 1..Len(QueryLinkageIds) |->
                        [L[i] EXCEPT !.id = QueryLinkageIds[i]]]
              l1  == SubSeq(all, 1, k)
              l2  == SubSeq(all, k + 1, Len(all))
          IN /\ PushOrder(l1) /\ PushOrder(l2)
             /\ store = ("c1" :> QueryCase("c1", "u1", "svcA", l1))
                         @@ ("c2" :> QueryCase("c2", "u2", "svcB", l2))
    /\ now = 0
    /\ inflight = [l \in LinkageIds |-> 0]
    /\ dispatched = [l \in LinkageIds |-> 0]
    /\ resp = Resp("none", NoLid, 0)
    /\ wrote = FALSE
    /\ out = QueueResult("none", {}, <<>>)
    /\ FilesIdle

\* GET /api/dept/pending-approvals
ReadDeptPending ==
    /\ out' = QueueResult("getDeptPendingApprovals", {"pending"},
                          getDeptPendingApprovals(store, QueryCaseOrder))
    /\ UNCHANGED <<vars, files>>

\* GET /api/admin/pending-approvals
ReadAdminPending ==
    /\ out' = QueueResult("getPendingApprovals", {"dept_approved"},
                          getPendingApprovals(store, QueryCaseOrder))
    /\ UNCHANGED <<vars, files>>

\* GET /api/dept/returned-items
ReadAdminReturned ==
    /\ out' = QueueResult("getAdminReturnedItems",
                          {"admin_rejected", "admin_revision_requested"},
                          getAdminReturnedItems(store, QueryCaseOrder))
    /\ UNCHANGED <<vars, files>>

QueryNext == ReadDeptPending \/ ReadAdminPending \/ ReadAdminReturned

QuerySpec == QueryInit /\ [][QueryNext]_allvars

\* the stored linkages as (case, position) pairs
StoredAt(s) ==
    {p \in (DOMAIN s) \X (1..Len(QueryLinkageIds)) : p[2] <= Len(s[p[1]].linkages)}

\* C15 (as claimed): each queue returns exactly the stored linkages with its
\* status (pending; dept_approved; admin_rejected or
\* admin_revision_requested), each once, each carrying its case's id,
\* applicant name and service name, ordered newest-created-first.
C15_QueuesFilteredNewestFirst ==
    out.query # "none" =>
        LET r == out.result IN
        /\ \A p \in StoredAt(store) :
              LET l == store[p[1]].linkages[p[2]] IN
              Cardinality({i \in 1..Len(r) : r[i].id = l.id})
                 = (IF l.approvalStatus \in out.statuses THEN 1 ELSE 0)
        /\ \A i \in 1..Len(r) :
              \E p \in StoredAt(store) :
                 LET l == store[p[1]].linkages[p[2]] IN
                 /\ r[i].id = l.id
                 /\ r[i].approvalStatus = l.approvalStatus
                 /\ r[i].createdAt = l.createdAt
                 /\ r[i].requestId = p[1]
                 /\ r[i].userName = store[p[1]].userName
                 /\ r[i].serviceName = store[p[1]].serviceName
        /\ \A i, j \in 1..Len(r) :
              i < j => r[i].createdAt.t >= r[j].createdAt.t

\* ================================================= the referral chain
\* the referrals entries all cases hold between them
MaxRefs == 3

ChainIds == {"c1", "c2", "c3"}

\* an id no case is stored under
MissingId == "c9"

\* what a newRequestId may name in damaged data: any case (the case itself
\* too) or a case that is not stored; every referrals entry the code writes
\* has a newRequestId
RefTargets == ChainIds \cup {MissingId}

\* what a referredFrom may name: the same, or nothing
ChainPointers == RefTargets \cup {NULL}

\* a case as getReferralChain reads it
ChainCase(id, from, refs) ==
    [id |-> id, referredFrom |-> from, referrals |-> refs]

\* the referrals entry at place i of case c; its reason names the hop
ChainRef(c, i, target) ==
    [newRequestId |-> target, reason |-> <<c, i>>]

\* the referrals list of case c with the targets l
ChainRefs(c, l) == [i \in 1..Len(l) |-> ChainRef(c, i, l[i])]

\* the cases the pointers of the cases in R name
PointedFrom(s, R) ==
    {s[c].referredFrom : c \in R}
        \cup UNION {{s[c].referrals[i].newRequestId : i \in 1..Len(s[c].referrals)}
                       : c \in R}

RECURSIVE Connected(_, _)
Connected(s, R) ==
    LET R2 == R \cup (PointedFrom(s, R) \cap DOMAIN s)
    IN IF R2 = R THEN R ELSE Connected(s, R2)

\* what one call of getReferralChain holds: the argument, `visited`, `cur`,
\* `backward`, `chain`, the calls of followForward that have not returned
\* (each with the place it reached in its forEach), and the steps taken
ChainIdle ==
    [pc |-> "idle", id |-> NULL, visited |-> {}, cur |-> NULL,
     backward |-> <<>>, chain |-> <<>>, stack |-> <<>>, steps |-> 0]

NoReason == <<>>

ChainEntry(c, current, reason) ==
    [id |-> c.id, current |-> current, reason |-> reason]

\* three stored cases whose pointers are drawn freely; a case that c1 is not
\* connected to has no pointers of its own (it cannot matter to the chain
\* of c1)
ChainInit ==
    /\ \E k1 \in 0..MaxRefs :
       \E k2 \in 0..(MaxRefs - k1) :
       \E k3 \in 0..(MaxRefs - k1 - k2) :
       \E l1 \in [1..k1 -> RefTargets], l2 \in [1..k2 -> RefTargets],
          l3 \in [1..k3 -> RefTargets], f1, f2, f3 \in ChainPointers :
          LET s == ("c1" :> ChainCase("c1", f1, ChainRefs("c1", l1)))
                   @@ ("c2" :> ChainCase("c2", f2, ChainRefs("c2", l2)))
                   @@ ("c3" :> ChainCase("c3", f3, ChainRefs("c3", l3)))
          IN /\ \A c \in ChainIds \ Connected(s, {"c1"}) :
                   s[c] = ChainCase(c, NULL, <<>>)
             /\ store = s
    /\ now = 0
    /\ inflight = [l \in LinkageIds |-> 0]
    /\ dispatched = [l \in LinkageIds |-> 0]
    /\ resp = Resp("none", NoLid, 0)
    /\ wrote = FALSE
    /\ out = ChainIdle
    /\ FilesIdle

\* getReferralChain(id) is called: visited.add(id), cur = store[id]
ChainCall(id) ==
    /\ out.pc = "idle"
    /\ out' = [ChainIdle EXCEPT !.pc = "backward", !.id = id,
                                !.visited = {id}, !.cur = id, !.steps = 1]
    /\ UNCHANGED <<vars, files>>

\* the call has taken one more step
Stepped(o) == [o EXCEPT !.steps = @ + 1]

\* mutant: an ancestor is pushed at the end of `backward`, not unshifted
ChainBackward_Push ==
    /\ out.pc = "backward"
    /\ LET from == IF out.cur \in DOMAIN store
                   THEN store[out.cur].referredFrom ELSE NULL
       IN IF Truthy(from) /\ from \in DOMAIN store /\ from \notin out.visited
          THEN out' = [Stepped(out) EXCEPT
                         !.visited = @ \cup {from},
                         !.cur = from,
                         !.backward = Append(@, ChainEntry(store[from], FALSE, NoReason))]
          ELSE out' = [Stepped(out) EXCEPT !.pc = "self"]
    /\ UNCHANGED <<vars, files>>

\* one test of the while condition, and the body when it holds
ChainBackward ==
    /\ out.pc = "backward"
    /\ LET from == IF out.cur \in DOMAIN store
                   THEN store[out.cur].referredFrom ELSE NULL
       IN IF Truthy(from) /\ from \in DOMAIN store /\ from \notin out.visited
          THEN out' = [Stepped(out) EXCEPT
                         !.visited = @ \cup {from},
                         !.cur = from,
                         !.backward = <<ChainEntry(store[from], FALSE, NoReason)>> \o @]
          ELSE out' = [Stepped(out) EXCEPT !.pc = "self"]
    /\ UNCHANGED <<vars, files>>

\* chain.push(...backward), the case itself, and the call followForward(id)
ChainSelf ==
    /\ out.pc = "self"
    /\ out' = [Stepped(out) EXCEPT
                  !.pc = "forward",
                  !.chain = out.backward \o
                              (IF out.id \in DOMAIN store
                               THEN <<ChainEntry(store[out.id], TRUE, NoReason)>>
                               ELSE <<>>),
                  !.stack = <<[req |-> out.id, i |-> 1]>>]
    /\ UNCHANGED <<vars, files>>

\* mutant: followForward does not consult `visited`
ChainForward_NoVisited ==
    /\ out.pc = "forward"
    /\ out.stack # <<>>
    /\ LET d    == Len(out.stack)
           f    == out.stack[d]
           refs == IF f.req \in DOMAIN store THEN store[f.req].referrals ELSE <<>>
       IN IF f.i > Len(refs)
          THEN out' = [Stepped(out) EXCEPT !.stack = SubSeq(@, 1, d - 1)]
          ELSE LET ref  == refs[f.i]
                   next == ref.newRequestId
                   rest == [out.stack EXCEPT ![d].i = f.i + 1]
               IN IF ~Truthy(next)
                  THEN out' = [Stepped(out) EXCEPT !.stack = rest]
                  ELSE IF next \in DOMAIN store
                       THEN out' = [Stepped(out) EXCEPT
                                      !.visited = @ \cup {next},
                                      !.chain = Append(@, ChainEntry(store[next], FALSE,
                                                                     ref.reason)),
                                      !.stack = Append(rest, [req |-> store[next].id,
                                                              i |-> 1])]
                       ELSE out' = [Stepped(out) EXCEPT !.visited = @ \cup {next},
                                               !.stack = rest]
    /\ UNCHANGED <<vars, files>>

\* one step of the innermost followForward that has not returned: its return
\* when the forEach is over (or the case is unknown), else the next entry
ChainForward ==
    /\ out.pc = "forward"
    /\ out.stack # <<>>
    /\ LET d    == Len(out.stack)
           f    == out.stack[d]
           refs == IF f.req \in DOMAIN store THEN store[f.req].referrals ELSE <<>>
       IN IF f.i > Len(refs)
          THEN out' = [Stepped(out) EXCEPT !.stack = SubSeq(@, 1, d - 1)]
          ELSE LET ref  == refs[f.i]
                   next == ref.newRequestId
                   rest == [out.stack EXCEPT ![d].i = f.i + 1]
               IN IF ~Truthy(next) \/ next \in out.visited
                  THEN out' = [Stepped(out) EXCEPT !.stack = rest]
                  ELSE IF next \in DOMAIN store
                       THEN out' = [Stepped(out) EXCEPT
                                      !.visited = @ \cup {next},
                                      !.chain = Append(@, ChainEntry(store[next], FALSE,
                                                                     ref.reason)),
                                      !.stack = Append(rest, [req |-> store[next].id,
                                                              i |-> 1])]
                       ELSE out' = [Stepped(out) EXCEPT !.visited = @ \cup {next},
                                               !.stack = rest]
    /\ UNCHANGED <<vars, files>>

\* followForward(id) returned: return chain
ChainReturn ==
    /\ out.pc = "forward"
    /\ out.stack = <<>>
    /\ out' = [Stepped(out) EXCEPT !.pc = "done"]
    /\ UNCHANGED <<vars, files>>

ChainNext ==
    \/ \E id \in {"c1", MissingId} : ChainCall(id)
    \/ ChainBackward
    \/ ChainSelf
    \/ ChainForward
    \/ ChainReturn

ChainSpec == ChainInit /\ [][ChainNext]_allvars

ChainIdsOf(chain) == {chain[i].id : i \in 1..Len(chain)}

\* the steps a call can take at most: the call, a test of the while
\* condition per case and the one that ends the loop, the push of the case
\* itself, one step per referrals entry and one return per followForward
\* (the first and one per case), and the return of the chain
StepBound(s) ==
    LET entries == Len(s["c1"].referrals) + Len(s["c2"].referrals)
                      + Len(s["c3"].referrals)
    IN 1 + (Cardinality(DOMAIN s) + 1) + 1 + entries + (1 + Cardinality(DOMAIN s)) + 1

ChainStep == ChainBackward \/ ChainSelf \/ ChainForward \/ ChainReturn

\* C16: whatever the referredFrom and referrals pointers are (cycles,
\* self-references, pointers to cases that are not stored), a call of
\* getReferralChain terminates: it can always take its next step until it
\* returns, and it returns within a number of steps that depends only on the
\* number of cases and referrals entries; and no case id is twice in the
\* chain it builds and returns.
C16_TerminatesNoIdTwice ==
    /\ out.steps <= StepBound(store)
    /\ out.pc \notin {"idle", "done"} => ENABLED ChainStep
    /\ \A i, j \in 1..Len(out.chain) :
          i # j => out.chain[i].id # out.chain[j].id

\* the chain of c1 returned from a store in which c1 refers to c2, c2 back
\* to c1 and on to itself, and c1 is marked as referred from c2
C16_Witness ==
    /\ out.pc = "done"
    /\ out.id = "c1"
    /\ store["c1"].referredFrom = "c2"
    /\ Len(store["c1"].referrals) = 1
    /\ store["c1"].referrals[1].newRequestId = "c2"
    /\ Len(store["c2"].referrals) = 2
    /\ store["c2"].referrals[1].newRequestId = "c1"
    /\ store["c2"].referrals[2].newRequestId = "c2"
    /\ ChainIdsOf(out.chain) = {"c1", "c2"}

\* followForward(c) from its entry i on, as the recursion it is: acc holds
\* the chain pushed so far and `visited`
RECURSIVE followForward(_, _, _, _)
followForward(s, c, i, acc) ==
    IF c \notin DOMAIN s THEN acc
    ELSE IF i > Len(s[c].referrals) THEN acc
    ELSE LET ref  == s[c].referrals[i]
             next == ref.newRequestId
         IN IF ~Truthy(next) \/ next \in acc.visited
            THEN followForward(s, c, i + 1, acc)
            ELSE IF next \in DOMAIN s
                 THEN followForward(s, c, i + 1,
                         followForward(s, s[next].id, 1,
                            [chain   |-> Append(acc.chain,
                                           ChainEntry(s[next], FALSE, ref.reason)),
                             visited |-> acc.visited \cup {next}]))
                 ELSE followForward(s, c, i + 1,
                         [acc EXCEPT !.visited = @ \cup {next}])

\* C17: for a stored case the returned chain is its ancestors, each referred
\* from the one before it and the first one a root (its referredFrom names
\* nothing stored, or a case already in the chain), then the case itself as
\* the only element flagged current, then its descendants in the order of a
\* depth-first walk of referrals[].newRequestId in list order, each with the
\* reason of its hop; for an unknown id the chain is empty.
C17_AncestorsSelfDescendants ==
    out.pc = "done" =>
        IF out.id \notin DOMAIN store THEN out.chain = <<>>
        ELSE \E k \in 1..Len(out.chain) :
                LET chain == out.chain
                    upto  == {chain[i].id : i \in 1..k}
                    root  == store[chain[1].id].referredFrom
                IN /\ chain[k].id = out.id
                   /\ \A i \in 1..Len(chain) : chain[i].current <=> (i = k)
                   /\ \A i \in 1..(k - 1) :
                         /\ store[chain[i + 1].id].referredFrom = chain[i].id
                         /\ chain[i].reason = NoReason
                   /\ ~Truthy(root) \/ root \notin DOMAIN store \/ root \in upto
                   /\ chain = followForward(store, out.id, 1,
                                 [chain |-> SubSeq(chain, 1, k), visited |-> upto]).chain

\* the chain of c1, which was referred from c2 and has itself a referral to
\* c3 whose own referral leads back to c2
C17_Witness ==
    /\ out.pc = "done"
    /\ out.id = "c1"
    /\ store["c1"].referredFrom = "c2"
    /\ store["c2"].referredFrom = NULL
    /\ Len(store["c3"].referrals) = 1
    /\ store["c3"].referrals[1].newRequestId = "c2"
    /\ out.chain = <<[id |-> "c2", current |-> FALSE, reason |-> NoReason],
                     [id |-> "c1", current |-> TRUE, reason |-> NoReason],
                     [id |-> "c3", current |-> FALSE, reason |-> <<"c1", 1>>]>>

-----------------------------------------------------------------------------
\* The store's files: requests.json, its .bak and .tmp, and the mtime cache.
\* A snapshot is the set of the records of the store object, one per id.

FileIds == {"c1", "c2"}

FileBodies == {"x", "y"}

\* the case records that save is given: an id and the rest of the record
FileRecords == [id : FileIds, body : FileBodies]

Snapshots == {S \in SUBSET FileRecords : \A a, b \in S : a.id = b.id => a = b}

\* no file of that name
NoFile == [kind |-> "none", data |-> {}]

\* JSON.stringify(data, null, 2): the whole text of a snapshot
stringify(data) == [kind |-> "json", data |-> data]

\* a file holding only the beginning of a text
Truncated == [kind |-> "partial", data |-> {}]

\* JSON.parse(fs.readFileSync(file)): throws on a text that is not whole
parse(file) == [ok |-> file.kind = "json", data |-> file.data]

\* _cache = null, _cacheMtime = 0
NoCache == [set |-> FALSE, data |-> {}, mtime |-> 0]

\* _cache = {}, _cacheMtime = 0
EmptyCache == [set |-> TRUE, data |-> {}, mtime |-> 0]

Cached(data, mtime) == [set |-> TRUE, data |-> data, mtime |-> mtime]

\* the first instant of the wall clock: an mtimeMs is never 0
FirstInstant == 1

\* a readAll that starts from an empty store when the file does not parse,
\* leaving the files as they are
readAll_StartFresh(d, c, t, sameMs) ==
    IF d.primary.kind = "none" \/ ~parse(d.primary).ok
    THEN [data |-> {}, disk |-> d, cache |-> EmptyCache, shared |-> FALSE]
    ELSE [data |-> parse(d.primary).data, disk |-> d,
          cache |-> Cached(parse(d.primary).data, d.mtime), shared |-> TRUE]

\* readAll() at instant t: the object returned, the files and the cache after
\* the call, and whether the object returned is the cache's own object;
\* sameMs tells whether Date.now() equals the mtimeMs of the file just written
readAll(d, c, t, sameMs) ==
    IF d.primary.kind = "none"
    THEN [data |-> {}, disk |-> d, cache |-> EmptyCache, shared |-> FALSE]
    ELSE IF c.set /\ d.mtime = c.mtime
    THEN [data |-> c.data, disk |-> d, cache |-> c, shared |-> TRUE]
    ELSE IF parse(d.primary).ok
    THEN [data |-> parse(d.primary).data, disk |-> d,
          cache |-> Cached(parse(d.primary).data, d.mtime), shared |-> TRUE]
    ELSE IF d.bak.kind # "none" /\ parse(d.bak).ok
    THEN [data |-> parse(d.bak).data,
          disk |-> [d EXCEPT !.primary = stringify(parse(d.bak).data),
                             !.mtime = t],
          cache |-> Cached(parse(d.bak).data, IF sameMs THEN t ELSE 0 - t),
          shared |-> TRUE]
    ELSE [data |-> {},
          disk |-> [d EXCEPT !.primary = NoFile, !.corrupt = @ \cup {t}],
          cache |-> EmptyCache, shared |-> FALSE]

\* store[id], undefined when the id is not a key
NoRecord == [id |-> NULL, body |-> NULL]

Lookup(data, id) ==
    IF \E r \in data : r.id = id
    THEN CHOOSE r \in data : r.id = id
    ELSE NoRecord

\* an assignment that keeps the record already stored under the id
Assign_KeepEarlier(data, request) ==
    IF \E r \in data : r.id = request.id THEN data ELSE data \cup {request}

\* store[request.id] = request
Assign(data, request) == {r \in data : r.id # request.id} \cup {request}

\* the last call of the store and what is known of the calls so far
LastCall(op, id, record, before, saved) ==
    [op |-> op, id |-> id, record |-> record, before |-> before,
     saved |-> saved]

FoundResult(id, record) ==
    [id |-> id, found |-> record # NoRecord, record |-> record]

FileInit ==
    /\ store = {}
    /\ now = FirstInstant
    /\ inflight = {}
    /\ dispatched = {}
    /\ resp = LastCall("none", NULL, NoRecord, NoFile, {})
    /\ wrote = FALSE
    /\ out = FoundResult(NULL, NoRecord)
    /\ disk = [primary |-> NoFile, bak |-> NoFile, tmp |-> NoFile,
               mtime |-> 0, corrupt |-> {}]
    /\ cache = NoCache
    /\ pc = "idle"

\* save(request) up to the call of writeAll: readAll, then the assignment,
\* which changes the cache's own object when readAll returned it
SaveCall(request) ==
    /\ pc = "idle"
    /\ \E sameMs \in BOOLEAN :
          LET r == readAll(disk, cache, now, sameMs)
              data == Assign(r.data, request)
          IN  /\ disk' = r.disk
              /\ cache' = IF r.shared THEN [r.cache EXCEPT !.data = data]
                                      ELSE r.cache
              /\ store' = data
              /\ resp' = LastCall("saving", request.id, request,
                                  r.disk.primary,
                                  resp.saved \cup {request.id})
    /\ pc' = "backup"
    /\ UNCHANGED <<now, inflight, dispatched, wrote, out>>

\* writeAll: existsSync(DATA_FILE), and copyFileSync begins to write the .bak
BackupStart ==
    /\ pc = "backup"
    /\ IF disk.primary.kind # "none"
       THEN /\ disk' = [disk EXCEPT !.bak = Truncated]
            /\ pc' = "copying"
       ELSE /\ disk' = disk
            /\ pc' = "tmp"
    /\ UNCHANGED <<vars, out, cache>>

\* a backup taken of the snapshot being written instead of the file
BackupEnd_CopiesNew ==
    /\ pc = "copying"
    /\ disk' = [disk EXCEPT !.bak = stringify(store)]
    /\ resp' = [resp EXCEPT !.op = "copied"]
    /\ pc' = "tmp"
    /\ UNCHANGED <<store, now, inflight, dispatched, wrote, out, cache>>

\* copyFileSync completes
BackupEnd ==
    /\ pc = "copying"
    /\ disk' = [disk EXCEPT !.bak = disk.primary]
    /\ resp' = [resp EXCEPT !.op = "copied"]
    /\ pc' = "tmp"
    /\ UNCHANGED <<store, now, inflight, dispatched, wrote, out, cache>>

\* copyFileSync throws part-way: the catch block ignores it
BackupFails ==
    /\ pc = "copying"
    /\ pc' = "tmp"
    /\ UNCHANGED <<vars, out, cache, disk>>

\* the write of the primary file that a writeAll without a temporary file
\* would begin
TmpStart_InPlace ==
    /\ pc = "tmp"
    /\ disk' = [disk EXCEPT !.primary = Truncated]
    /\ pc' = "writing"
    /\ UNCHANGED <<vars, out, cache>>

\* writeFileSync(tmpFile, json) begins
TmpStart ==
    /\ pc = "tmp"
    /\ disk' = [disk EXCEPT !.tmp = Truncated]
    /\ pc' = "writing"
    /\ UNCHANGED <<vars, out, cache>>

\* writeFileSync(tmpFile, json) completes
TmpEnd ==
    /\ pc = "writing"
    /\ disk' = [disk EXCEPT !.tmp = stringify(store)]
    /\ pc' = "rename"
    /\ UNCHANGED <<vars, out, cache>>

\* renameSync(tmpFile, DATA_FILE)
Rename ==
    /\ pc = "rename"
    /\ disk' = [disk EXCEPT !.primary = disk.tmp, !.tmp = NoFile,
                            !.mtime = now]
    /\ pc' = "renamed"
    /\ UNCHANGED <<vars, out, cache>>

\* _cache = data, _cacheMtime = the mtimeMs of the file; save returns
SaveReturn ==
    /\ pc = "renamed"
    /\ cache' = Cached(store, disk.mtime)
    /\ resp' = [resp EXCEPT !.op = "save"]
    /\ store' = {}
    /\ pc' = "idle"
    /\ UNCHANGED <<now, inflight, dispatched, wrote, out, disk>>

\* the process dies inside writeAll: its memory is lost, the files stay
Crash ==
    /\ pc \notin {"idle", "crashed"}
    /\ pc' = "crashed"
    /\ cache' = NoCache
    /\ UNCHANGED <<vars, out, disk>>

\* the next process starts with an empty cache
Restart ==
    /\ pc = "crashed"
    /\ pc' = "idle"
    /\ store' = {}
    /\ resp' = [resp EXCEPT !.op = "restart"]
    /\ UNCHANGED <<now, inflight, dispatched, wrote, out, disk, cache>>

\* a findById whose readAll writes no file
FindById_ReadOnly(id) ==
    /\ pc = "idle"
    /\ \E sameMs \in BOOLEAN :
          LET r == readAll(disk, cache, now, sameMs)
          IN  /\ cache' = r.cache
              /\ out' = FoundResult(id, Lookup(r.data, id))
    /\ resp' = [resp EXCEPT !.op = "findById"]
    /\ UNCHANGED <<store, now, inflight, dispatched, wrote, pc, disk>>

\* findById(id) == readAll()[id] || null
FindById(id) ==
    /\ pc = "idle"
    /\ \E sameMs \in BOOLEAN :
          LET r == readAll(disk, cache, now, sameMs)
          IN  /\ disk' = r.disk
              /\ cache' = r.cache
              /\ out' = FoundResult(id, Lookup(r.data, id))
    /\ resp' = [resp EXCEPT !.op = "findById"]
    /\ UNCHANGED <<store, now, inflight, dispatched, wrote, pc>>

\* the primary file is damaged from outside the program
Damage ==
    /\ pc = "idle"
    /\ disk.primary.kind = "json"
    /\ disk' = [disk EXCEPT !.primary = Truncated, !.mtime = now]
    /\ resp' = [resp EXCEPT !.op = "damage"]
    /\ UNCHANGED <<store, now, inflight, dispatched, wrote, out, cache, pc>>

FileTick ==
    /\ now < FirstInstant + MaxClock
    /\ now' = now + 1
    /\ UNCHANGED <<store, inflight, dispatched, resp, wrote, aux>>

FileNext ==
    \/ \E request \in FileRecords : SaveCall(request)
    \/ BackupStart
    \/ BackupEnd
    \/ BackupFails
    \/ TmpStart
    \/ TmpEnd
    \/ Rename
    \/ SaveReturn
    \/ Crash
    \/ Restart
    \/ \E id \in FileIds : FindById(id)
    \/ Damage
    \/ FileTick

FileSpec == FileInit /\ [][FileNext]_allvars

\* C18: findById(c.id) right after save(c) returns a record equal to c, also
\* when an earlier record was stored under that id, and findById of an id
\* that no save was ever given returns the not-found value.
C18_SaveThenFindById ==
    [][\A id \in FileIds :
          FindById(id) =>
             /\ (resp.op = "save" /\ resp.id = id
                    => out' = [id |-> id, found |-> TRUE,
                               record |-> resp.record])
             /\ (id \notin resp.saved => ~out'.found)]_allvars

\* a record of c1 replaced by save and read back, while c2 was never saved
C18_Witness ==
    /\ resp.op = "findById"
    /\ resp.id = "c1"
    /\ resp.record = [id |-> "c1", body |-> "y"]
    /\ [id |-> "c1", body |-> "x"] \in resp.before.data
    /\ out = [id |-> "c1", found |-> TRUE, record |-> resp.record]
    /\ "c2" \notin resp.saved
    /\ pc = "idle"

\* C20: from the call of writeAll on, whether or not the process has died,
\* the primary file holds what it held at the call or the whole new snapshot,
\* so a file that held a whole snapshot at the call never holds the beginning
\* of one.
C20_PrimaryOldOrNew ==
    pc # "idle" =>
       /\ disk.primary \in {resp.before, stringify(store)}
       /\ (resp.before.kind # "partial" => disk.primary.kind # "partial")

\* the process died while the temporary file was being written, after the
\* backup copy: the primary file still holds the earlier snapshot
C20_Witness ==
    /\ pc = "crashed"
    /\ disk.tmp = Truncated
    /\ disk.primary = resp.before
    /\ disk.primary.kind = "json"
    /\ disk.primary # stringify(store)
    /\ disk.bak = disk.primary

-----------------------------------------------------------------------------
\* listAll: the cases newest first. Instants are counted in hours; a display
\* string names a day, the half of the day and the hour of the 12-hour clock.

\* a field the record does not have
Absent == [fmt |-> "undefined"]

\* a display string the pattern of parseKoDate does not match
Unmatched == [fmt |-> "other"]

\* "2026. 2. 26. (AM | PM) h:00:00" of day d
KoDate(d, ampm, h) == [fmt |-> "ko", d |-> d, ampm |-> ampm, h |-> h]

ListDays == {1, 2}

ListHours == {1, 11, 12}

KoDates == {KoDate(d, ampm, h) : d \in ListDays, ampm \in {"am", "pm"},
                                 h \in ListHours}

\* the offset from UTC, in hours, of the zone the process runs in
Zones == {0, 9}

\* new Date(y, mo - 1, d, h, mi, s).getTime(): the instant of a local time
LocalTime(d, h, zone) == d * 24 + h - zone

\* parseKoDate with the hour of the 12-hour clock taken as it stands
parseKoDate_NoAfternoon(str, zone) ==
    IF str.fmt # "ko" THEN 0 ELSE LocalTime(str.d, str.h, zone)

\* parseKoDate(str) in a process of the given zone
parseKoDate(str, zone) ==
    IF str.fmt = "undefined" THEN 0
    ELSE IF str.fmt # "ko" THEN 0
    ELSE LET h == IF str.ampm = "pm" /\ str.h # 12 THEN str.h + 12
                  ELSE IF str.ampm = "am" /\ str.h = 12 THEN 0
                  ELSE str.h
         IN LocalTime(str.d, h, zone)

getTimestamp(req, zone) ==
    IF req.createdAtISO.fmt # "undefined" THEN req.createdAtISO.t
    ELSE parseKoDate(req.createdAt, zone)

\* Object.values(store).sort((a, b) => getTimestamp(b) - getTimestamp(a))
listAll(s, order, zone) ==
    LET values == ObjectValues(s, order)
        n == Len(values)
        c == [i \in 1..n, j \in 1..n |->
                getTimestamp(values[j], zone) - getTimestamp(values[i], zone)]
        p == SortedPositions(n, c)
    IN [k \in 1..n |-> values[p[k]]]

ListCaseOrder == <<"c1", "c2", "c3">>

\* the ISO instants of the cases that have one
ListInstants == {LocalTime(d, h, 0) : d \in ListDays, h \in {0, 13}}

\* a case as the server saves it (both fields; the display string is not
\* read) or as older data holds it (no createdAtISO; any createdAt or none)
ListCases ==
    [id : {"c"}, createdAtISO : {Iso(t) : t \in ListInstants},
     createdAt : {KoDate(1, "am", 12)}]
    \cup [id : {"c"}, createdAtISO : {Absent},
          createdAt : KoDates \cup {Absent, Unmatched}]

ListResult(op, zone, list) == [op |-> op, zone |-> zone, list |-> list]

ListInit ==
    /\ \E n \in 0..Len(ListCaseOrder), C \in [1..Len(ListCaseOrder) -> ListCases] :
          store = [id \in {ListCaseOrder[i] : i \in 1..n} |->
                     [C[CHOOSE i \in 1..n : ListCaseOrder[i] = id]
                        EXCEPT !.id = id]]
    /\ now = 0
    /\ inflight = [l \in LinkageIds |-> 0]
    /\ dispatched = [l \in LinkageIds |-> 0]
    /\ resp = Resp("none", NoLid, 0)
    /\ wrote = FALSE
    /\ out = ListResult("none", 0, <<>>)
    /\ FilesIdle

\* a call of listAll() in a process of some zone
ListAll(zone) ==
    /\ out' = ListResult("listAll", zone, listAll(store, ListCaseOrder, zone))
    /\ UNCHANGED <<vars, files>>

ListNext == \E zone \in Zones : ListAll(zone)

ListSpec == ListInit /\ [][ListNext]_allvars

\* the hour of the day that a half of the day and an hour of the 12-hour
\* clock name
HourOfDay(ampm, h) == (h % 12) + (IF ampm = "pm" THEN 12 ELSE 0)

\* the timestamp that orders a case: its ISO instant when it has one, else
\* the instant its display string names, 0 when that is absent or unmatched
Authoritative(req, zone) ==
    IF req.createdAtISO.fmt = "iso" THEN req.createdAtISO.t
    ELSE IF req.createdAt.fmt = "ko"
    THEN LocalTime(req.createdAt.d,
                   HourOfDay(req.createdAt.ampm, req.createdAt.h), zone)
    ELSE 0

\* C19: listAll returns every stored case exactly once, in an order in which
\* the authoritative timestamp never increases.
C19_ListAllNewestFirst ==
    out.op = "listAll" =>
       /\ Len(out.list) = Cardinality(DOMAIN store)
       /\ \A id \in DOMAIN store :
             \E k \in 1..Len(out.list) :
                /\ out.list[k] = store[id]
                /\ \A m \in 1..Len(out.list) : out.list[m].id = id => m = k
       /\ \A i, j \in 1..Len(out.list) :
             i < j => Authoritative(out.list[i], out.zone)
                         >= Authoritative(out.list[j], out.zone)

\* an afternoon display string sorts before an ISO instant of the same day's
\* morning, and a case with no timestamp comes last, against insertion order
C19_Witness ==
    /\ out.op = "listAll"
    /\ out.zone = 9
    /\ Len(out.list) = 3
    /\ out.list[1].id = "c3"
    /\ out.list[1].createdAtISO = Absent
    /\ out.list[1].createdAt = KoDate(2, "pm", 1)
    /\ out.list[2].id = "c2"
    /\ out.list[2].createdAtISO = Iso(LocalTime(2, 0, 0))
    /\ out.list[3].id = "c1"
    /\ out.list[3].createdAt = Absent
    /\ out.list[3].createdAtISO = Absent

-----------------------------------------------------------------------------
\* Recovery on read.

\* readAll takes the cache's object without reading the file
CacheHit == disk.primary.kind # "none" /\ cache.set /\ disk.mtime = cache.mtime

\* the primary file is read and does not parse
PrimaryUnparsable == disk.primary.kind = "partial" /\ ~CacheHit

BackupValid == disk.bak.kind # "none" /\ parse(disk.bak).ok

-----------------------------------------------------------------------------
\* The migration of legacy collaborations and referrals, and the cache it
\* works on. writeAll is taken as a whole here.

\* an identifier: one the data carries, one made by crypto.randomUUID(), or
\* the value of a field that is not set
Given(n) == [kind |-> "given", n |-> n]
Uuid(n)  == [kind |-> "uuid", n |-> n]
NoId     == [kind |-> "undefined", n |-> 0]

\* the calls of crypto.randomUUID() that a run of the model follows
MaxUuids == 4

\* req.linkages: not set, or an array
NoLinkages == [set |-> FALSE, list |-> <<>>]
Linkages(list) == [set |-> TRUE, list |-> list]

\* a linkage that addLinkage made: it has no _migratedFrom
PlainLinkage ==
    [id |-> Given(9), migratedFrom |-> NoId, category |-> "referral",
     newRequestId |-> NoId]

\* that linkage after its final approval spawned the case Given(2): the
\* approval sets newRequestId and pushes a referrals entry for the same case
ApprovedLinkage ==
    [id |-> Given(9), migratedFrom |-> NoId, category |-> "referral",
     newRequestId |-> Given(2)]

\* the linkage pushed for a legacy collaboration c (c.id)
CollabLinkage(c) ==
    [id |-> c, migratedFrom |-> c, category |-> "collaboration",
     newRequestId |-> NoId]

\* the linkage pushed for a legacy referral r (r.newRequestId)
ReferralLinkage(id, refId, r) ==
    [id |-> id, migratedFrom |-> refId, category |-> "referral",
     newRequestId |-> r]

AlreadyMigrated(links, from) ==
    \E i \in 1..Len(links) : links[i].migratedFrom = from

\* for (const c of req.collaborations): the linkages after the loop and the
\* number pushed
RECURSIVE MigrateCollaborations(_, _)
MigrateCollaborations(links, cs) ==
    IF cs = <<>> THEN [links |-> links, n |-> 0]
    ELSE LET c == Head(cs)
             skip == AlreadyMigrated(links, c)
             rest == MigrateCollaborations(
                        IF skip THEN links ELSE Append(links, CollabLinkage(c)),
                        Tail(cs))
         IN [links |-> rest.links, n |-> rest.n + (IF skip THEN 0 ELSE 1)]

\* for (const r of req.referrals), u the number of UUIDs made so far:
\* refId = r.newRequestId || crypto.randomUUID()
RECURSIVE MigrateReferrals(_, _, _)
MigrateReferrals(links, rs, u) ==
    IF rs = <<>> THEN [links |-> links, n |-> 0, u |-> u]
    ELSE LET r == Head(rs)
             u1 == IF r = NoId THEN u + 1 ELSE u
             refId == IF r = NoId THEN Uuid(u1) ELSE r
             skip == AlreadyMigrated(links, refId)
             u2 == IF skip THEN u1 ELSE u1 + 1
             rest == MigrateReferrals(
                        IF skip THEN links
                        ELSE Append(links, ReferralLinkage(Uuid(u2), refId, r)),
                        Tail(rs), u2)
         IN [links |-> rest.links, n |-> rest.n + (IF skip THEN 0 ELSE 1),
             u |-> rest.u]

\* the body of the loop over the cases, for one case
MigrateCase(req, u) ==
    LET a == MigrateCollaborations(req.linkages.list, req.collaborations)
        b == MigrateReferrals(a.links, req.referrals, u)
    IN [req |-> [req EXCEPT !.linkages = Linkages(b.links)],
        n |-> a.n + b.n, u |-> b.u]

\* id is a key of the store object
HasKey(data, id) == \E r \in data : r.id = id

\* for (const req of Object.values(store)): the store object after the loop,
\* the count `migrated` and the number of UUIDs made
RECURSIVE MigrateCases(_, _, _)
MigrateCases(data, order, u) ==
    IF order = <<>> THEN [data |-> data, migrated |-> 0, u |-> u]
    ELSE IF ~HasKey(data, Head(order))
    THEN MigrateCases(data, Tail(order), u)
    ELSE LET m == MigrateCase(Lookup(data, Head(order)), u)
             rest == MigrateCases(Assign(data, m.req), Tail(order), m.u)
         IN [data |-> rest.data, migrated |-> m.n + rest.migrated,
             u |-> rest.u]

MigrateOrder == <<"c1", "c2">>

\* writeAll(data) at instant t, as a whole: the files after it
WriteAll(d, data, t) ==
    [d EXCEPT !.bak = IF d.primary.kind # "none" THEN d.primary ELSE @,
              !.primary = stringify(data),
              !.mtime = t]

\* the legacy content of a case: collaborations by id, referrals by their
\* newRequestId, which older entries may lack
MigrateCaseRecords ==
    {c \in [id : {"c"}, status : {"open"},
            linkages : {NoLinkages, Linkages(<<>>), Linkages(<<PlainLinkage>>),
                        Linkages(<<ApprovedLinkage>>)},
            collaborations : {<<>>, <<Given(1)>>},
            referrals : {<<>>, <<Given(2)>>, <<NoId>>, <<Given(2), NoId>>}] :
        c.linkages = Linkages(<<ApprovedLinkage>>)
           => c.referrals \in {<<Given(2)>>, <<Given(2), NoId>>}}

\* a second case: one the server saved, or one with an older referral
SecondCaseRecords ==
    {c \in MigrateCaseRecords :
        /\ c.linkages = NoLinkages
        /\ c.collaborations = <<>>
        /\ c.referrals \in {<<>>, <<NoId>>}}

\* the stores read at server start
MigrateStores ==
    {{[C[id] EXCEPT !.id = id] : id \in D} :
        D \in {{"c1"}, {"c1", "c2"}},
        C \in {f \in [{"c1", "c2"} -> MigrateCaseRecords] :
                  f["c2"] \in SecondCaseRecords}}

\* what the last call returned, and the UUIDs made so far
CallResult(op, ret, before, uuids) ==
    [op |-> op, ret |-> ret, before |-> before, uuids |-> uuids]

\* the snapshot a read returned and whether the cache served it
ReadResult(op, fromCache, data) ==
    [op |-> op, fromCache |-> fromCache, data |-> data]

MigrateInit ==
    /\ \E S \in MigrateStores :
          disk = [primary |-> stringify(S), bak |-> NoFile, tmp |-> NoFile,
                  mtime |-> FirstInstant, corrupt |-> {}]
    /\ cache = NoCache
    /\ pc = "idle"
    /\ store = {}
    /\ now = FirstInstant
    /\ inflight = {}
    /\ dispatched = {}
    /\ resp = CallResult("none", 0, NoCache, 0)
    /\ wrote = FALSE
    /\ out = ReadResult("none", FALSE, {})

\* migrateToLinkages(): the loop changes the object readAll returned, which
\* is the cache's; writeAll runs only when something was migrated
Migrate ==
    /\ resp.uuids < MaxUuids
    /\ \E sameMs \in BOOLEAN :
          LET r == readAll(disk, cache, now, sameMs)
              m == MigrateCases(r.data, MigrateOrder, resp.uuids)
          IN  /\ resp' = CallResult("migrate", m.migrated, r.cache, m.u)
              /\ IF m.migrated > 0
                 THEN /\ disk' = WriteAll(r.disk, m.data, now)
                      /\ cache' = Cached(m.data, now)
                 ELSE /\ disk' = r.disk
                      /\ cache' = IF r.shared
                                  THEN [r.cache EXCEPT !.data = m.data]
                                  ELSE r.cache
    /\ UNCHANGED <<store, now, inflight, dispatched, wrote, out, pc>>

\* a store read (listAll, findById): the snapshot readAll returns
ReadStore ==
    /\ \E sameMs \in BOOLEAN :
          LET r == readAll(disk, cache, now, sameMs)
          IN  /\ out' = ReadResult("read", CacheHit, r.data)
              /\ disk' = r.disk
              /\ cache' = r.cache
    /\ resp' = [resp EXCEPT !.op = "read"]
    /\ UNCHANGED <<store, now, inflight, dispatched, wrote, pc>>

\* updateStatus(id, status): null for an unknown id, with nothing changed
\* and nothing written
MigrateUpdateStatus(id, status) ==
    /\ \E sameMs \in BOOLEAN :
          LET r == readAll(disk, cache, now, sameMs) IN
          IF HasKey(r.data, id)
          THEN LET data == Assign(r.data, [Lookup(r.data, id) EXCEPT
                                              !.status = status])
               IN /\ disk' = WriteAll(r.disk, data, now)
                  /\ cache' = Cached(data, now)
                  /\ resp' = [resp EXCEPT !.op = "updateStatus", !.ret = 1]
          ELSE /\ disk' = r.disk
               /\ cache' = r.cache
               /\ resp' = [resp EXCEPT !.op = "rejected", !.ret = 0]
    /\ UNCHANGED <<store, now, inflight, dispatched, wrote, out, pc>>

\* another program replaces the primary file at a later instant than its
\* modification time
ExternalWrite ==
    /\ now > disk.mtime
    /\ disk.primary.kind = "json"
    /\ \E req \in disk.primary.data :
          disk' = [disk EXCEPT !.primary = stringify(
                                   Assign(disk.primary.data,
                                          [req EXCEPT !.status = "contacted"])),
                               !.mtime = now]
    /\ resp' = [resp EXCEPT !.op = "external"]
    /\ UNCHANGED <<store, now, inflight, dispatched, wrote, out, cache, pc>>

\* the process is started again: the cache is empty
MigrateRestart ==
    /\ cache.set
    /\ cache' = NoCache
    /\ resp' = [resp EXCEPT !.op = "restart"]
    /\ UNCHANGED <<store, now, inflight, dispatched, wrote, out, disk, pc>>

MigrateNext ==
    \/ Migrate
    \/ ReadStore
    \/ \E id \in {"c1", "c9"} : MigrateUpdateStatus(id, "closed")
    \/ ExternalWrite
    \/ MigrateRestart
    \/ FileTick

MigrateSpec == MigrateInit /\ [][MigrateNext]_allvars

\* C23: a read served from the cache returns the snapshot that parsing the
\* primary file returns.
C23_CacheEqualsFile ==
    [][(CacheHit /\ ReadStore) =>
          /\ out'.fromCache
          /\ out'.data = parse(disk.primary).data]_allvars

\* C30: a run of migrateToLinkages right after another returns 0 and leaves
\* the store object and the primary file as they were.
C30_MigrateTwiceIsOnce ==
    [][(resp.op = "migrate" /\ Migrate) =>
          /\ resp'.ret = 0
          /\ disk'.primary = disk.primary
          /\ cache'.data = cache.data]_allvars

\* the linkages of a case that stand for the referral to the case r
LinkagesFor(req, r) ==
    {j \in 1..Len(req.linkages.list) : req.linkages.list[j].newRequestId = r}

\* C36 (as claimed): in the stored data every entry of a case's referrals
\* that names a spawned case is represented by at most one linkage of the
\* case, also after migrateToLinkages ran on a finally approved referral.
C36_OneLinkagePerReferral ==
    disk.primary.kind = "json" =>
       \A req \in disk.primary.data :
          \A i \in 1..Len(req.referrals) :
             req.referrals[i] # NoId
                => Cardinality(LinkagesFor(req, req.referrals[i])) <= 1

-----------------------------------------------------------------------------
\* The search of the knowledge base in POST /api/chat. Scores are counted in
\* tenths; a field of a service is the set of the terms it includes.

\* the number of services in the knowledge base
MaxKB == 6

\* .slice(0, 5)
TopK == 5

\* a service with the given terms in its name, keyword tags, target and
\* content
Service(name, keywords, target, content) ==
    [name |-> name, keywords |-> keywords, target |-> target,
     content |-> content]

\* the services the knowledge base is drawn from
Services ==
    {Service({"a"}, {}, {}, {}),
     Service({}, {}, {}, {"c"}),
     Service({}, {"b"}, {}, {}),
     Service({"a"}, {"a", "b"}, {"a"}, {"c"})}

\* the terms of the last user message: search terms, their expansions and
\* the sub-terms of the long ones
Query(search, expanded, sub) ==
    [searchTerms |-> search, expandedTerms |-> expanded, subTerms |-> sub]

Queries ==
    {Query({"a"}, {"b"}, {"c"}), Query({"a"}, {}, {}), Query({}, {"b"}, {"c"}),
     Query({}, {}, {})}

\* the sum over the terms of a list of the weights of the fields that
\* include the term
FieldScore(service, terms, wName, wKeywords, wTarget, wContent) ==
    Cardinality(terms \cap service.name) * wName
    + Cardinality(terms \cap service.keywords) * wKeywords
    + Cardinality(terms \cap service.target) * wTarget
    + Cardinality(terms \cap service.content) * wContent

\* the score of a service: weights 3, 2, 1, 1 for the search terms, 0.7 of
\* them for the expansions, 1.5, 1, 0.5, 0.5 for the sub-terms
Score(service, q) ==
    FieldScore(service, q.searchTerms, 30, 20, 10, 10)
    + FieldScore(service, q.expandedTerms, 21, 14, 7, 7)
    + FieldScore(service, q.subTerms, 15, 10, 5, 5)

\* welfareKB.map(service => ({service, score}))
Scored(kb, q) ==
    [i \in 1..Len(kb) |-> [service |-> i, score |-> Score(kb[i], q)]]

\* .sort((a, b) => b.score - a.score)
SortByScore(seq) ==
    LET n == Len(seq)
        c == [i \in 1..n, j \in 1..n |-> seq[j].score - seq[i].score]
        p == SortedPositions(n, c)
    IN [k \in 1..n |-> seq[p[k]]]

\* .slice(0, 5)
Slice(seq, k) == SubSeq(seq, 1, IF Len(seq) < k THEN Len(seq) ELSE k)

\* scoredServices: the positive scores, highest first, the first five
scoredServices(kb, q) ==
    LET Positive(s) == s.score > 0
    IN Slice(SortByScore(SelectSeq(Scored(kb, q), Positive)), TopK)

\* a search that keeps every one of the first five
filteredServices_NoFloor(kb, q) == scoredServices(kb, q)

\* filteredServices: those with s.score >= topScore * 0.3
filteredServices(kb, q) ==
    LET scored == scoredServices(kb, q)
        topScore == IF Len(scored) > 0 THEN scored[1].score ELSE 0
        AboveFloor(s) == 10 * s.score >= 3 * topScore
    IN SelectSeq(scored, AboveFloor)

SearchResult(op, q, list) == [op |-> op, query |-> q, list |-> list]

SearchInit ==
    /\ store \in [1..MaxKB -> Services]
    /\ now = 0
    /\ inflight = [l \in LinkageIds |-> 0]
    /\ dispatched = [l \in LinkageIds |-> 0]
    /\ resp = Resp("none", NoLid, 0)
    /\ wrote = FALSE
    /\ out = SearchResult("none", Query({}, {}, {}), <<>>)
    /\ FilesIdle

\* POST /api/chat up to filteredServices
Search(q) ==
    /\ out' = SearchResult("search", q, filteredServices(store, q))
    /\ UNCHANGED <<vars, files>>

SearchNext == \E q \in Queries : Search(q)

SearchSpec == SearchInit /\ [][SearchNext]_allvars

\* the highest score of a record of the knowledge base
HighestScore(kb, q) ==
    CHOOSE m \in {Score(kb[i], q) : i \in 1..Len(kb)} :
        \A i \in 1..Len(kb) : Score(kb[i], q) <= m

\* C24: the search returns at most 5 records of the knowledge base, highest
\* score first, each with a score above 0 and at least 0.3 of the highest
\* score S, none with 5 or more records scoring higher, and none when S = 0.
C24_SearchTopFiveAboveFloor ==
    out.op = "search" =>
       LET list == out.list
           S == HighestScore(store, out.query)
       IN /\ Len(list) <= 5
          /\ \A k \in 1..Len(list) :
                /\ list[k].service \in 1..Len(store)
                /\ list[k].score = Score(store[list[k].service], out.query)
                /\ list[k].score > 0
                /\ 10 * list[k].score >= 3 * S
                /\ Cardinality({i \in 1..Len(store) :
                                  Score(store[i], out.query) > list[k].score})
                      < 5
          /\ \A j, k \in 1..Len(list) :
                j < k => /\ list[j].score >= list[k].score
                         /\ list[j].service # list[k].service
          /\ (S = 0 => list = <<>>)

\* six services match, the sixth by score is cut off and one of the first
\* five is below the floor: three are returned
C24_Witness ==
    /\ out.op = "search"
    /\ out.query = Query({"a"}, {"b"}, {"c"})
    /\ Cardinality({i \in 1..Len(store) : Score(store[i], out.query) > 0}) = 6
    /\ Len(out.list) = 3
    /\ out.list[1].score = 79
    /\ out.list[2].score = 30
    /\ out.list[3].score = 30
    /\ \E i \in 1..Len(store) : Score(store[i], out.query) = 5

-----------------------------------------------------------------------------
\* The calls of the external AI service and their retry loops.

CallSites == {"chat", "staffChat", "summary", "rationale"}

\* the sites that stream the answer to the client as server-sent events
StreamSites == {"chat", "staffChat"}

\* the chunks of one answer stream that a run of the model follows
MaxChunks == 2

\* for (let attempt = 1; attempt <= 2; attempt++)
MaxAttempts == 2

\* a request at a call site: the position in the loop, the attempt, the
\* calls made, the message of the first error, the chunks of the current
\* stream, the events written to the response, the value returned
RetryState(site, at, attempt, calls, first, chunks, events, ret, steps) ==
    [site |-> site, pc |-> at, attempt |-> attempt, calls |-> calls,
     first |-> first, chunks |-> chunks, events |-> events, ret |-> ret,
     steps |-> steps]

RetryIdle == RetryState("none", "idle", 0, 0, "none", 0, <<>>, "none", 0)

RetryInit ==
    /\ store = <<>>
    /\ now = 0
    /\ inflight = [l \in LinkageIds |-> 0]
    /\ dispatched = [l \in LinkageIds |-> 0]
    /\ resp = Resp("none", NoLid, 0)
    /\ wrote = FALSE
    /\ out = RetryIdle
    /\ FilesIdle

\* a request reaches the loop: attempt = 1 and the service is called
RetryBegin(site) ==
    /\ out.pc \in {"idle", "done"}
    /\ out' = RetryState(site, "calling", 1, 1, "none", 0, <<>>, "none", 1)
    /\ UNCHANGED <<vars, files>>

\* generateContent resolves: return result.text || null
AiReturns(text) ==
    /\ out.pc = "calling"
    /\ out.site \notin StreamSites
    /\ out' = [out EXCEPT !.pc = "done",
                          !.ret = IF text = "" THEN "null" ELSE "text",
                          !.steps = @ + 1]
    /\ UNCHANGED <<vars, files>>

\* the stream yields a chunk: it is written as a stream event when it has
\* text
AiChunk(hasText) ==
    /\ out.pc = "calling"
    /\ out.site \in StreamSites
    /\ out.chunks < MaxChunks
    /\ out' = [out EXCEPT !.chunks = @ + 1,
                          !.events = IF hasText THEN Append(@, "stream") ELSE @,
                          !.steps = @ + 1]
    /\ UNCHANGED <<vars, files>>

\* the stream ends: [DONE] is written and the response ended
AiStreamEnds ==
    /\ out.pc = "calling"
    /\ out.site \in StreamSites
    /\ out' = [out EXCEPT !.pc = "done", !.events = Append(@, "done"),
                          !.ret = "streamed", !.steps = @ + 1]
    /\ UNCHANGED <<vars, files>>

\* the catch block of the loop, after the last attempt or an error other
\* than 429: an error event and [DONE] for a stream, null otherwise
Surfaced(o) ==
    IF o.site \in StreamSites
    THEN [o EXCEPT !.pc = "done",
                   !.events = @ \o <<"error", "done">>,
                   !.ret = "failed", !.steps = @ + 1]
    ELSE [o EXCEPT !.pc = "done", !.ret = "null", !.steps = @ + 1]

\* a catch block that tries again after any error
AiFails_AnyError(message) ==
    /\ out.pc = "calling"
    /\ out' = IF out.attempt < MaxAttempts
              THEN [out EXCEPT !.pc = "backoff",
                               !.first = IF @ = "none" THEN message ELSE @,
                               !.steps = @ + 1]
              ELSE Surfaced(out)
    /\ UNCHANGED <<vars, files>>

\* the call or the stream throws an error with the given message
AiFails(message) ==
    /\ out.pc = "calling"
    /\ out' = IF message = "429" /\ out.attempt < MaxAttempts
              THEN [out EXCEPT !.pc = "backoff",
                               !.first = IF @ = "none" THEN message ELSE @,
                               !.steps = @ + 1]
              ELSE Surfaced([out EXCEPT
                               !.first = IF @ = "none" THEN message ELSE @])
    /\ UNCHANGED <<vars, files>>

\* the setTimeout of the backoff fires: continue, the next attempt calls
BackoffEnds ==
    /\ out.pc = "backoff"
    /\ out' = [out EXCEPT !.pc = "calling", !.attempt = @ + 1,
                          !.calls = @ + 1, !.chunks = 0, !.steps = @ + 1]
    /\ UNCHANGED <<vars, files>>

RetryStep ==
    \/ \E text \in {"", "t"} : AiReturns(text)
    \/ \E hasText \in BOOLEAN : AiChunk(hasText)
    \/ AiStreamEnds
    \/ \E message \in {"429", "500"} : AiFails(message)
    \/ BackoffEnds

RetryNext ==
    \/ \E site \in CallSites : RetryBegin(site)
    \/ \E text \in {"", "t"} : AiReturns(text)
    \/ \E hasText \in BOOLEAN : AiChunk(hasText)
    \/ AiStreamEnds
    \/ \E message \in {"429", "500"} : AiFails(message)
    \/ BackoffEnds

RetrySpec == RetryInit /\ [][RetryNext]_allvars

\* the steps a request can take: per attempt the call, its chunks and its
\* outcome, and the backoff between the attempts
RetryStepBound == MaxAttempts * (MaxChunks + 2)

\* C25: a request makes at most two calls, the second only after a 429 of
\* the first; a failed request ends with an error event and the end marker,
\* or with null; and every request ends within a bounded number of steps,
\* each of which the request can take.
C25_BoundedRetrySurfaced ==
    /\ out.calls <= 2
    /\ out.attempt = out.calls
    /\ (out.calls = 2 => out.first = "429")
    /\ out.steps <= RetryStepBound
    /\ (out.pc \in {"calling", "backoff"} => ENABLED RetryStep)
    /\ (out.pc = "done" /\ out.ret = "failed" =>
          /\ Len(out.events) >= 2
          /\ SubSeq(out.events, Len(out.events) - 1, Len(out.events))
                = <<"error", "done">>)
    /\ (out.pc = "done" /\ out.site \in StreamSites =>
          /\ out.events[Len(out.events)] = "done"
          /\ \A i \in 1..(Len(out.events) - 1) : out.events[i] # "done")
    /\ (out.pc = "done" /\ out.site \notin StreamSites /\ out.first # "none"
          /\ out.ret # "text" => out.ret = "null")
    /\ (out.pc # "done" => "done" \notin {out.events[i] : i \in 1..Len(out.events)})

\* a chat request whose first stream broke with 429 after a chunk and whose
\* second call failed too: the error event and the end marker follow
C25_Witness ==
    /\ out.site = "chat"
    /\ out.pc = "done"
    /\ out.calls = 2
    /\ out.first = "429"
    /\ out.events = <<"stream", "error", "done">>

-----------------------------------------------------------------------------
\* The resubmit flag of the linkage update endpoint.

\* C26: PATCH /api/case/:id/linkage/:lid with resubmit moves a rejected or
\* revision_requested linkage to pending and an admin_rejected or
\* admin_revision_requested one to dept_approved, and leaves the
\* approvalStatus of a pending, dept_approved or approved linkage as it is.
C26_ResubmitOnlyFromReturned ==
    [][\A lid \in LinkageIds, body \in PatchBodies :
          (Exists(lid) /\ body.resubmit
              /\ PatchLinkage(OwnerOf(store, lid), lid, body)) =>
             LET old == LinkageOf(store, lid).approvalStatus
                 new == LinkageOf(store', lid).approvalStatus
             IN /\ old \in {"rejected", "revision_requested"}
                      => new = "pending"
                /\ old \in {"admin_rejected", "admin_revision_requested"}
                      => new = "dept_approved"
                /\ old \in {"pending", "dept_approved", "approved"}
                      => new = old]_vars

-----------------------------------------------------------------------------
\* The operational status of a linkage.

\* the place of an executionStatus on null -> email_sent -> in_progress ->
\* completed | declined
ExecutionRank(status) ==
    CASE status = NULL -> 0
      [] status = "email_sent" -> 1
      [] status = "in_progress" -> 2
      [] status \in {"completed", "declined"} -> 3
      [] OTHER -> 0 - 1

\* C27: every change of a linkage's executionStatus moves it forward on
\* null -> email_sent -> in_progress -> completed | declined (the mark of a
\* failed dispatch aside), so in_progress, completed and declined are never
\* overwritten by email_sent, whatever runs while the dispatch is awaited.
C27_ExecutionStatusForwardOnly ==
    [][\A lid \in LinkageIds :
          (Exists(lid) /\ lid \in StoredLinkageIds(store')) =>
             LET old == LinkageOf(store, lid).executionStatus
                 new == LinkageOf(store', lid).executionStatus
             IN new # old =>
                   \/ new = "email_failed"
                   \/ ExecutionRank(new) > ExecutionRank(old)]_vars

-----------------------------------------------------------------------------
\* Referral linkages from their creation to the final approval.

ReferralNext ==
    \/ \E id \in CaseIds, body \in CreateBodies : PostReferralSend(id, body)
    \/ \E id \in CaseIds, body \in LinkageBodies : CreateLinkage(id, body)
    \/ \E lid \in LinkageIds : DeptApprove(lid)
    \/ \E lid \in LinkageIds : AdminApproveStart(lid)
    \/ \E lid \in LinkageIds : DispatchOk(lid)
    \/ \E lid \in LinkageIds : DispatchFail(lid)
    \/ Tick

ReferralSpec == Init /\ [][ReferralNext]_allvars

\* C28: once the approval request has completed, every approved linkage of
\* category referral names in newRequestId a stored case, spawned with
\* status referred.
C28_ApprovedReferralHasSpawnedCase ==
    \A lid \in StoredLinkageIds(store) :
       LET l == LinkageOf(store, lid) IN
       (l.category = "referral" /\ l.approvalStatus = "approved"
           /\ inflight[lid] = 0) =>
          /\ Truthy(l.newRequestId)
          /\ l.newRequestId \in DOMAIN store
          /\ store[l.newRequestId].status = "referred"


\* ================================================ the synonym expansion
\* a word is the sequence of its characters; the words tried are those of
\* at most MaxTermLen characters over two characters
Chars == {"a", "b"}

MaxTermLen == 3

Words == UNION {[1..n -> Chars] : n \in 1..MaxTermLen}

\* synonymMap: a key of one character (as the key for illness), a key of two
\* characters that starts with it, and a key of three that starts with both
synonymMap ==
    (<<"a">> :> {<<"b", "a">>, <<"b", "b">>})
    @@ (<<"a", "b">> :> {<<"b", "b">>, <<"b", "a", "b">>})
    @@ (<<"a", "b", "a">> :> {<<"a", "a", "b">>})

\* String.prototype.includes
includes(str, sub) ==
    \E i \in 0..(Len(str) - Len(sub)) : SubSeq(str, i + 1, i + Len(sub)) = sub

\* the keys whose synonyms expandSearchTerms adds for a term
MatchingKeys(term) ==
    {key \in DOMAIN synonymMap :
        \/ key = term
        \/ /\ key # term
           /\ includes(term, key) \/ includes(key, term)
           /\ Len(term) >= 2}

\* expandSearchTerms that returns the original terms too
expandSearchTerms_KeepOriginal(searchTerms) ==
    UNION {synonymMap[key] : key \in UNION {MatchingKeys(t) : t \in searchTerms}}

\* expandSearchTerms(searchTerms), the Set it returns
expandSearchTerms(searchTerms) ==
    UNION {synonymMap[key] : key \in UNION {MatchingKeys(t) : t \in searchTerms}}
    \ searchTerms

\* the words the chat handler keeps as search terms: more than one
\* character, or a key of synonymMap
SearchTerms == {w \in Words : Len(w) > 1 \/ w \in DOMAIN synonymMap}

MaxTerms == 2

\* the sets of at most MaxTerms search terms
TermSets ==
    {{}} \cup {{f[i] : i \in 1..MaxTerms} : f \in [1..MaxTerms -> SearchTerms]}

ExpandResult(op, terms, expanded) ==
    [op |-> op, terms |-> terms, expanded |-> expanded]

ExpandInit ==
    /\ store \in TermSets
    /\ now = 0
    /\ inflight = [l \in LinkageIds |-> 0]
    /\ dispatched = [l \in LinkageIds |-> 0]
    /\ resp = Resp("none", NoLid, 0)
    /\ wrote = FALSE
    /\ out = ExpandResult("none", {}, {})
    /\ FilesIdle

\* POST /api/chat: expandedTerms = expandSearchTerms(searchTerms)
Expand ==
    /\ out' = ExpandResult("expand", store, expandSearchTerms(store))
    /\ UNCHANGED <<vars, files>>

ExpandNext == Expand

ExpandSpec == ExpandInit /\ [][ExpandNext]_allvars

\* the number of characters a key and a term share when one contains the
\* other: the length of the shorter
Overlap(key, term) == IF Len(key) <= Len(term) THEN Len(key) ELSE Len(term)

Contained(key, term) == includes(term, key) \/ includes(key, term)

\* C31 (as claimed): every returned synonym is a synonym of a key that
\* equals a search term, or that contains or is contained in one with at
\* least 2 characters in common, and no returned word is a search term.
C31_ExpansionByOverlapOfTwo ==
    out.op = "expand" =>
       /\ \A syn \in out.expanded :
             \E term \in out.terms, key \in DOMAIN synonymMap :
                /\ syn \in synonymMap[key]
                /\ \/ key = term
                   \/ Contained(key, term) /\ Overlap(key, term) >= 2
       /\ out.expanded \cap out.terms = {}

\* C31 (amended): the returned words are exactly the synonyms of the keys
\* that equal a search term, or that contain or are contained in a search
\* term of at least 2 characters, without the search terms themselves.
C31_ExpansionByTermLength ==
    out.op = "expand" =>
       /\ \A syn \in Words \cup out.expanded :
             syn \in out.expanded <=>
                /\ syn \notin out.terms
                /\ \E term \in out.terms, key \in DOMAIN synonymMap :
                      /\ syn \in synonymMap[key]
                      /\ \/ key = term
                         \/ Contained(key, term) /\ Len(term) >= 2
       /\ out.expanded \cap out.terms = {}

\* the term ab brings the synonyms of the one-character key a it contains,
\* and the synonym bb is left out because it is a search term
C31_Witness ==
    /\ out.op = "expand"
    /\ out.terms = {<<"a", "b">>, <<"b", "b">>}
    /\ <<"b", "a">> \in out.expanded
    /\ <<"b", "b">> \notin out.expanded


\* ================================================ the service application
\* the handlers of POST /api/service-request/connect that may run at once
Handlers == {"h1", "h2"}

\* a name as typed: its text, and whether blanks surround it
Name(text, padded) == [text |-> text, padded |-> padded]

\* String(userName).trim()
trim(name) == [name EXCEPT !.padded = FALSE]

\* a phone number as typed: its digits, and whether hyphens separate them
Phone(digits, hyphens) == [digits |-> digits, hyphens |-> hyphens]

\* String(userPhone).trim().replace(/-/g, '')
NoHyphens(phone) == [phone EXCEPT !.hyphens = FALSE]

\* the request bodies tried: one applicant and one service, the name with or
\* without surrounding blanks, the phone with or without hyphens, a chat
\* history of two messages or more or none; and a body without a name
ConnectBodies ==
    [serviceName : {"svcA"},
     userName    : {Name("kim", FALSE), Name("kim", TRUE)},
     userPhone   : {Phone("0101", FALSE), Phone("0101", TRUE)},
     chatHistory : BOOLEAN,
     valid       : {TRUE}]
    \cup
    {[serviceName |-> "svcA", userName |-> Name("", FALSE),
      userPhone |-> Phone("0101", FALSE), chatHistory |-> FALSE,
      valid |-> FALSE]}

\* 24 * 60 * 60 * 1000 ms, in instants of 12 hours
DayTicks == 2

MaxCases == 2

ApplicationIds == {"r1", "r2", "r3", "r4"}

\* crypto.randomUUID(): an id no stored case has
NextRequestId(s) == CHOOSE id \in ApplicationIds : id \notin DOMAIN s

\* the duplicate the handler finds among the stored cases
duplicate(s, body, t) ==
    \E id \in DOMAIN s :
       /\ s[id].userName = trim(body.userName)
       /\ NoHyphens(s[id].userPhone) = NoHyphens(body.userPhone)
       /\ s[id].serviceName = body.serviceName
       /\ s[id].createdAtISO > t - DayTicks

\* a save that stores nothing
SaveApplication_Nothing(s, id, body, t) == s

\* requestStore.save({id: requestId, ..., status: 'open', referrals: []})
SaveApplication(s, id, body, t) ==
    s @@ (id :> [id           |-> id,
                 serviceName  |-> body.serviceName,
                 userName     |-> body.userName,
                 userPhone    |-> body.userPhone,
                 createdAtISO |-> t,
                 status       |-> "open"])

Handler(at, body, id) == [at |-> at, body |-> body, id |-> id]

NoBody ==
    [serviceName |-> "", userName |-> Name("", FALSE),
     userPhone |-> Phone("", FALSE), chatHistory |-> FALSE, valid |-> FALSE]

HandlerIdle == Handler("idle", NoBody, "none")

ConnectResp(op, h, id, code) == [op |-> op, h |-> h, id |-> id, code |-> code]

ConnectInit ==
    /\ store = <<>>
    /\ now = 0
    /\ inflight = [l \in LinkageIds |-> 0]
    /\ dispatched = [l \in LinkageIds |-> 0]
    /\ resp = ConnectResp("none", "none", "none", 0)
    /\ wrote = FALSE
    /\ out = NULL
    /\ disk = NULL
    /\ cache = NULL
    /\ pc = [h \in Handlers |-> HandlerIdle]

\* the applications saved or between the duplicate check and the save
Pending == {h \in Handlers : pc[h].at \in {"awaitSummary", "awaitRationale"}}

\* the save and the start of the dispatch: everything from the end of the
\* last summary await to `await emailTransporter.sendMail`
SaveAndDispatch(h, body) ==
    LET id == NextRequestId(store) IN
    /\ store' = SaveApplication(store, id, body, now)
    /\ wrote' = TRUE
    /\ pc' = [pc EXCEPT ![h] = Handler("awaitMail", body, id)]
    /\ UNCHANGED resp

\* the request arrives: validation, duplicate check, and, without a chat
\* history, the save
ConnectCall(h, body) ==
    /\ pc[h].at = "idle"
    /\ Cardinality(DOMAIN store) + Cardinality(Pending) < MaxCases
    /\ UNCHANGED <<now, inflight, dispatched, out, disk, cache>>
    /\ IF ~body.valid
       THEN /\ resp' = ConnectResp("connect", h, "none", 400)
            /\ wrote' = FALSE
            /\ UNCHANGED <<store, pc>>
       ELSE IF duplicate(store, body, now)
       THEN /\ resp' = ConnectResp("connect", h, "none", 409)
            /\ wrote' = FALSE
            /\ UNCHANGED <<store, pc>>
       ELSE IF body.chatHistory
       THEN /\ pc' = [pc EXCEPT ![h] = Handler("awaitSummary", body, "none")]
            /\ wrote' = FALSE
            /\ UNCHANGED <<store, resp>>
       ELSE SaveAndDispatch(h, body)

\* await summarizeChatHistory(chatHistory) settles
SummaryReturns(h) ==
    /\ pc[h].at = "awaitSummary"
    /\ pc' = [pc EXCEPT ![h].at = "awaitRationale"]
    /\ wrote' = FALSE
    /\ UNCHANGED <<store, now, inflight, dispatched, resp, out, disk, cache>>

\* await generateAssignmentRationale(...) settles; the save follows
RationaleReturns(h) ==
    /\ pc[h].at = "awaitRationale"
    /\ SaveAndDispatch(h, pc[h].body)
    /\ UNCHANGED <<now, inflight, dispatched, out, disk, cache>>

\* sendMail resolves
MailSent(h) ==
    /\ pc[h].at = "awaitMail"
    /\ resp' = ConnectResp("connect", h, pc[h].id, 200)
    /\ pc' = [pc EXCEPT ![h] = HandlerIdle]
    /\ wrote' = FALSE
    /\ UNCHANGED <<store, now, inflight, dispatched, out, disk, cache>>

\* sendMail rejects
MailFails(h) ==
    /\ pc[h].at = "awaitMail"
    /\ resp' = ConnectResp("connect", h, pc[h].id, 500)
    /\ pc' = [pc EXCEPT ![h] = HandlerIdle]
    /\ wrote' = FALSE
    /\ UNCHANGED <<store, now, inflight, dispatched, out, disk, cache>>

ConnectTick ==
    /\ now < DayTicks
    /\ now' = now + 1
    /\ UNCHANGED <<store, inflight, dispatched, resp, wrote, aux>>

ConnectNext ==
    \/ \E h \in Handlers, body \in ConnectBodies : ConnectCall(h, body)
    \/ \E h \in Handlers : SummaryReturns(h)
    \/ \E h \in Handlers : RationaleReturns(h)
    \/ \E h \in Handlers : MailSent(h)
    \/ \E h \in Handlers : MailFails(h)
    \/ ConnectTick

ConnectSpec == ConnectInit /\ [][ConnectNext]_allvars

\* C32: the case of an application is in the store, with status open, from
\* before its notification is dispatched, and a failed dispatch answers 500
\* and leaves the store, that case included, as it was.
C32_SavedBeforeDispatchKeptOnFailure ==
    [][\A h \in Handlers :
         /\ pc'[h].at = "awaitMail"
               => /\ pc'[h].id \in DOMAIN store'
                  /\ store'[pc'[h].id].status = "open"
                  /\ store'[pc'[h].id].userName = pc'[h].body.userName
         /\ MailFails(h)
               => /\ resp'.code = 500
                  /\ store' = store
                  /\ pc[h].id \in DOMAIN store'
                  /\ store'[pc[h].id].status = "open"]_allvars

\* an application answered 500 whose case is stored with status open
C32_Witness ==
    /\ resp.op = "connect"
    /\ resp.code = 500
    /\ resp.id \in DOMAIN store
    /\ store[resp.id].status = "open"

\* C39 (as claimed): no two stored cases have the same applicant name, the
\* same phone number but for hyphens and the same service, and creation
\* instants less than 24 hours apart.
C39_NoDuplicateWithinADay ==
    \A a, b \in DOMAIN store :
       (/\ a # b
        /\ store[a].userName = store[b].userName
        /\ NoHyphens(store[a].userPhone) = NoHyphens(store[b].userPhone)
        /\ store[a].serviceName = store[b].serviceName)
          => \/ store[a].createdAtISO - store[b].createdAtISO >= DayTicks
             \/ store[b].createdAtISO - store[a].createdAtISO >= DayTicks


\* ==================================== approvalStatus and approvalHistory
\* the approvalStatus a history entry names
StatusNamedBy(action) ==
    CASE action = "submitted" -> "pending"
      [] action \in {"dept_approved", "dept_resubmitted"} -> "dept_approved"
      [] OTHER -> action

\* C33 (as claimed): the approvalStatus of every stored linkage is the state
\* named by the last entry of its approvalHistory.
C33_StatusIsLastHistoryEntry ==
    \A lid \in StoredLinkageIds(store) :
       LET l == LinkageOf(store, lid) IN
       /\ Len(l.approvalHistory) > 0
       /\ l.approvalStatus
             = StatusNamedBy(l.approvalHistory[Len(l.approvalHistory)].action)


\* ============================== a referral linkage approved more than once
\* the workflow of one referral linkage followed far enough for a second
\* final approval: histories of up to MaxReapproveHist entries
MaxReapproveHist == 5

ReapproveRoom(lid) ==
    lid \in StoredLinkageIds(store) =>
        Len(LinkageOf(store, lid).approvalHistory) < MaxReapproveHist

\* POST /api/dept/linkage/:lid/approve
DeptApproveAgain(lid) ==
    /\ ReapproveRoom(lid)
    /\ TransitionAnswer("deptApprove", lid,
          deptApproveLinkage(store, OwnerOf(store, lid), lid, now), 400)

\* POST /api/admin/linkage/:lid/approve, up to `await sendMail(...)`
AdminApproveAgain(lid) ==
    /\ ReapproveRoom(lid)
    /\ Cardinality(DOMAIN store \cap SpawnIds) < Len(SpawnIdSeq)
    /\ AdminApprove(lid)

ReapproveNext ==
    \/ \E id \in DOMAIN store, body \in LinkageBodies : CreateLinkage(id, body)
    \/ \E lid \in LinkageIds : DeptApproveAgain(lid)
    \/ \E lid \in LinkageIds : AdminApproveAgain(lid)
    \/ \E lid \in LinkageIds : DispatchOk(lid)
    \/ \E lid \in LinkageIds : DispatchFail(lid)
    \/ \E id \in DOMAIN store, lid \in LinkageIds, body \in PatchBodies :
          PatchLinkage(id, lid, body)
    \/ Tick

ReapproveSpec == Init /\ [][ReapproveNext]_allvars

\* the cases spawned from the case that owns a linkage
SpawnedFrom(s, owner) == {c \in DOMAIN s : s[c].referredFrom = owner}

\* C34 (as claimed): a referral linkage has at most one spawned case, at most
\* one entry in the referrals of its case and at most one dispatch, and its
\* newRequestId, once set, keeps its value.
C34_OneSpawnOneEntryOneDispatch ==
    [][\A lid \in StoredLinkageIds(store) :
         LET owner == OwnerOf(store, lid)
             old   == LinkageOf(store, lid)
             new   == LinkageOf(store', lid)
         IN old.category = "referral" =>
               /\ Cardinality(SpawnedFrom(store', owner)) <= 1
               /\ Len(store'[owner].referrals) <= 1
               /\ dispatched'[lid] <= 1
               /\ Truthy(old.newRequestId)
                     => new.newRequestId = old.newRequestId]_allvars


\* C35: a stored linkage whose newRequestId is set names a stored case whose
\* referredFrom is the case that owns the linkage, and the referrals of that
\* owner have an entry with the same newRequestId.
C35_SpawnedCaseIntegrity ==
    \A lid \in StoredLinkageIds(store) :
       LET owner == OwnerOf(store, lid)
           l     == LinkageOf(store, lid)
       IN Truthy(l.newRequestId) =>
             /\ l.newRequestId \in DOMAIN store
             /\ store[l.newRequestId].referredFrom = owner
             /\ \E i \in 1..Len(store[owner].referrals) :
                   store[owner].referrals[i].newRequestId = l.newRequestId

\* a linkage approved a second time, whose newRequestId names the second
\* case spawned
C35_Witness ==
    \E lid \in StoredLinkageIds(store) :
       /\ LinkageOf(store, lid).newRequestId = "n2"
       /\ Len(store[OwnerOf(store, lid)].referrals) = 2
       /\ inflight[lid] = 0


MAX_REFERRAL_CHAIN_DEPTH == 10

\* the longest line of cases followed, each case spawned by a referral of
\* the one before it
MaxLine == 12

LineIds ==
    <<"k01", "k02", "k03", "k04", "k05", "k06", "k07", "k08", "k09", "k10",
      "k11", "k12", "k13", "k14">>

\* a line of n cases: case k is referred from case k - 1 and has one
\* referrals entry, for case k + 1
Line(n) ==
    [id \in {LineIds[k] : k \in 1..n} |->
        LET k == CHOOSE j \in 1..n : LineIds[j] = id
        IN ChainCase(id,
                     IF k > 1 THEN LineIds[k - 1] ELSE NULL,
                     IF k < n THEN ChainRefs(id, <<LineIds[k + 1]>>) ELSE <<>>)]

SafeChainInit ==
    /\ \E n \in 1..MaxLine : store = Line(n)
    /\ now = 0
    /\ inflight = [l \in LinkageIds |-> 0]
    /\ dispatched = [l \in LinkageIds |-> 0]
    /\ resp = Resp("none", NoLid, 0)
    /\ wrote = FALSE
    /\ out = ChainIdle
    /\ FilesIdle

\* chain.slice(0, MAX_REFERRAL_CHAIN_DEPTH)
slice(chain, n) == SubSeq(chain, 1, IF Len(chain) < n THEN Len(chain) ELSE n)

\* getSafeReferralChain: the chain getReferralChain returned, cut
SafeChainReturn ==
    /\ out.pc = "done"
    /\ out' = [out EXCEPT !.pc = "safe",
                          !.chain = slice(@, MAX_REFERRAL_CHAIN_DEPTH)]
    /\ UNCHANGED <<vars, files>>

SafeChainNext ==
    \/ \E id \in DOMAIN store : ChainCall(id)
    \/ ChainBackward
    \/ ChainSelf
    \/ ChainForward
    \/ ChainReturn
    \/ SafeChainReturn

SafeChainSpec == SafeChainInit /\ [][SafeChainNext]_allvars

\* C40 (as claimed): the chain getSafeReferralChain returns for a stored
\* case has an element flagged current.
C40_CutChainKeepsCurrent ==
    (out.pc = "safe" /\ out.id \in DOMAIN store)
       => \E i \in 1..Len(out.chain) :
             out.chain[i].current /\ out.chain[i].id = out.id

\* ------------------------------------------- handlers suspended at an await
\* the completion of a suspended approval of linkage lid (sendMail settled)
Completes(lid) == inflight[lid] > 0 /\ inflight'[lid] < inflight[lid]

====
